---- MODULE Spec2Model ----
(***************************************************************************)
(* Verification model of the arduboy-emu core (crates/core): the AVR CPU,  *)
(* the data-space bus with its peripheral hooks, the interrupt dispatcher, *)
(* the timers, the SPI port with the FX flash engine and the display SPI   *)
(* buffer, and the snapshot operations of the host.                        *)
(*                                                                         *)
(* The guest program is an input: each executed instruction is drawn from  *)
(* a small alphabet instead of being fetched from a flash image.           *)
(***************************************************************************)
EXTENDS Integers, Sequences, FiniteSets, TLC

VARIABLES
    cpu_type,        \* CpuType of the machine, fixed at construction
    cpu,             \* Cpu { pc, sp, sreg, tick, sleeping }
    data,            \* Memory.data as a sparse map: absent address = 0
    timer0,          \* Timer8 (Timer/Counter0)
    timer1,          \* Timer16 (Timer/Counter1)
    timer3,          \* Timer16 (Timer/Counter3, ATmega32u4)
    timer4,          \* Timer4 (ATmega32u4)
    timer2,          \* Timer8 (Timer/Counter2, ATmega328P)
    spi,             \* Spi { spif, wcol, spi2x, spie, spe }
    adc,             \* Adc { aden, adie, adif }
    fx_flash,        \* FxFlash { state, loaded, ... }
    fx_cs_prev,      \* Arduboy.fx_cs_prev
    spdr_in,         \* Arduboy.spdr_in
    spi_out,         \* Arduboy.spi_out, each entry tagged with its issue number
    display_type,    \* Arduboy.display_type
    pcd_pins,        \* Arduboy.pcd_cs_bit / pcd_dc_bit
    audio,           \* speaker_prev_pc6 and audio_buf.left { edges, level }
    dbg,             \* Arduboy.dbg_spdr_writes / dbg_fx_transfers / dbg_fx_cs_count
    disp_rx,         \* bytes the display controllers have received, in order,
                     \* each with its issue number and the number of its flush
    snap,            \* the snapshot the host holds (a sequence of at most one)
    ctl,             \* position of the host: which call is in progress
    panicked,        \* a Rust panic (index out of bounds) has ended the run
    flash,           \* Memory.flash as a sparse map: absent address = 0
    eeprom,          \* Memory.eeprom as a sparse map: absent address = 0xFF
    breakpoints,     \* Arduboy.breakpoints, as the set of its word addresses
    breakpoint_hit,  \* Arduboy.breakpoint_hit
    debugger,        \* Debugger { watchpoints, watch_hit }
    pins,            \* Arduboy.pin_b .. pin_f, the external pin latches
    buttons,         \* for each button, the last set_button call made for it
    rewind,          \* the host's RewindBuffer { buf, write_pos, count }, once made
    hist             \* history of the last operations (for stating properties)

vars == << cpu_type, cpu, data, timer0, timer1, timer3, timer4, timer2, spi, adc,
           fx_flash, fx_cs_prev, spdr_in, spi_out, display_type, pcd_pins, audio, dbg,
           disp_rx, snap, ctl, panicked, flash, eeprom, breakpoints, breakpoint_hit,
           debugger, pins, buttons, rewind, hist >>

(* The state only the host's own calls touch: no guest instruction and no   *)
(* peripheral update writes it.                                            *)
host == << flash, breakpoints, pins, buttons, rewind >>

----------------------------------------------------------------------------
(* Program constants *)

SRAM_SIZE == 2560
SRAM_SIZE_328P == 2048
REG_COUNT == 32
IO_SIZE == 224
SREG_I == 7
SREG_C == 0
SREG_ADDR == 95
SPH_ADDR == 94
SPL_ADDR == 93

(* Register addresses used by the bus hooks (data-space addresses). *)
PIND_ADDR == 41
DDRD_ADDR == 42
PORTD_ADDR == 43
PORTC_ADDR == 40
PORTF_ADDR == 49
SPCR_ADDR == 76
SPSR_ADDR == 77
SPDR_ADDR == 78
EECR_ADDR == 63
EEDR_ADDR == 64
EEPROM_SIZE == 1024

----------------------------------------------------------------------------
(* Bounds of the exploration *)

(* run_frame: the cycles of one frame, (CLOCK_HZ * 135) / 10000.  CLOCK_HZ  *)
(* is a multiple of 10000, so the division is taken first to stay within   *)
(* 32-bit arithmetic.                                                      *)
CLOCK_HZ == 16000000

FrameCycles == (CLOCK_HZ \div 10000) * 135

MaxTickCpu == 5
MaxTickRewind == 4
MaxTickIrq == 16
MaxTickSpi == 5
MaxTickPoll == 10
MaxSleepTick == 136
MaxIssued == 3
MaxTickOob == 6

----------------------------------------------------------------------------
(* u8 / u16 arithmetic *)

Bit(v, b) == (v \div (2 ^ b)) % 2

U8(v) == v % 256

U16(v) == v % 65536

SetBit(v, b) == IF Bit(v, b) = 1 THEN v ELSE v + 2 ^ b

ClrBit(v, b) == IF Bit(v, b) = 1 THEN v - 2 ^ b ELSE v

BXor(a, b) ==
    ((Bit(a, 0) + Bit(b, 0)) % 2) + 2 * ((Bit(a, 1) + Bit(b, 1)) % 2)
    + 4 * ((Bit(a, 2) + Bit(b, 2)) % 2) + 8 * ((Bit(a, 3) + Bit(b, 3)) % 2)
    + 16 * ((Bit(a, 4) + Bit(b, 4)) % 2) + 32 * ((Bit(a, 5) + Bit(b, 5)) % 2)
    + 64 * ((Bit(a, 6) + Bit(b, 6)) % 2) + 128 * ((Bit(a, 7) + Bit(b, 7)) % 2)

BAnd(a, b) ==
    Bit(a, 0) * Bit(b, 0) + 2 * Bit(a, 1) * Bit(b, 1)
    + 4 * Bit(a, 2) * Bit(b, 2) + 8 * Bit(a, 3) * Bit(b, 3)
    + 16 * Bit(a, 4) * Bit(b, 4) + 32 * Bit(a, 5) * Bit(b, 5)
    + 64 * Bit(a, 6) * Bit(b, 6) + 128 * Bit(a, 7) * Bit(b, 7)

----------------------------------------------------------------------------
(* Memory.data: a byte array of data_size bytes, zero-filled at            *)
(* construction.  The model keeps the non-zero bytes only.                 *)

DataSize ==
    REG_COUNT + IO_SIZE + (IF cpu_type = "Atmega32u4" THEN SRAM_SIZE ELSE SRAM_SIZE_328P)

EmptyMap == [x \in {} |-> 0]

Get(d, a) == IF a \in DOMAIN d THEN d[a] ELSE 0

Put(d, a, v) ==
    IF v = 0
    THEN [x \in (DOMAIN d) \ {a} |-> d[x]]
    ELSE [x \in (DOMAIN d) \cup {a} |-> IF x = a THEN v ELSE d[x]]

(* Memory::read_raw / write_raw: bounds-checked raw access. *)
write_raw_dropped(d, addr, v) == d

read_raw(d, addr) == IF addr < DataSize THEN Get(d, addr) ELSE 0

write_raw(d, addr, v) == IF addr < DataSize THEN Put(d, addr, v) ELSE d

----------------------------------------------------------------------------
(* The machine as one record, so that the bus and the instruction set can   *)
(* be written as functions from machine to machine.                        *)

M ==
    [ cpu |-> cpu, data |-> data,
      timer0 |-> timer0, timer1 |-> timer1, timer3 |-> timer3,
      timer4 |-> timer4, timer2 |-> timer2,
      spi |-> spi, adc |-> adc,
      fx_flash |-> fx_flash, fx_cs_prev |-> fx_cs_prev, spdr_in |-> spdr_in,
      spi_out |-> spi_out, display_type |-> display_type, pcd_pins |-> pcd_pins,
      audio |-> audio, dbg |-> dbg, disp_rx |-> disp_rx, panicked |-> panicked, eeprom |-> eeprom,
      breakpoint_hit |-> breakpoint_hit, debugger |-> debugger,
      hist |-> hist ]

Commit(m) ==
    /\ cpu' = m.cpu
    /\ data' = m.data
    /\ timer0' = m.timer0
    /\ timer1' = m.timer1
    /\ timer3' = m.timer3
    /\ timer4' = m.timer4
    /\ timer2' = m.timer2
    /\ spi' = m.spi
    /\ adc' = m.adc
    /\ fx_flash' = m.fx_flash
    /\ fx_cs_prev' = m.fx_cs_prev
    /\ spdr_in' = m.spdr_in
    /\ spi_out' = m.spi_out
    /\ display_type' = m.display_type
    /\ pcd_pins' = m.pcd_pins
    /\ audio' = m.audio
    /\ dbg' = m.dbg
    /\ disp_rx' = m.disp_rx
    /\ panicked' = m.panicked
    /\ eeprom' = m.eeprom
    /\ breakpoint_hit' = m.breakpoint_hit
    /\ debugger' = m.debugger
    /\ hist' = m.hist

----------------------------------------------------------------------------
(* cpu.rs: flag helpers and the stack *)

reg(m, r) == Get(m.data, r)

set_reg(m, d, v) == [m EXCEPT !.data = Put(@, d, v)]

sync_sreg(m) == [m EXCEPT !.data = Put(@, SREG_ADDR, m.cpu.sreg)]

flags_add(sreg, rd, rr, r) ==
    LET r7 == Bit(r, 7)
        rd7 == Bit(rd, 7)
        rr7 == Bit(rr, 7)
        r3 == Bit(r, 3)
        rd3 == Bit(rd, 3)
        rr3 == Bit(rr, 3)
        or3(a, b, c) == IF a + b + c > 0 THEN 1 ELSE 0
        h == or3(rd3 * rr3, rr3 * (1 - r3), (1 - r3) * rd3)
        v == or3(rd7 * rr7 * (1 - r7), (1 - rd7) * (1 - rr7) * r7, 0)
        n == r7
        z == IF r = 0 THEN 1 ELSE 0
        c == or3(rd7 * rr7, rr7 * (1 - r7), (1 - r7) * rd7)
        s == (n + v) % 2
    IN  (sreg - (sreg % 64)) + 32 * h + 16 * s + 8 * v + 4 * n + 2 * z + c

(* flags_sub with the Z flag always computed from the result alone. *)
flags_sub_fresh_z(sreg, rd, rr, r, set_z) ==
    LET r7 == Bit(r, 7)
        rd7 == Bit(rd, 7)
        rr7 == Bit(rr, 7)
        or3(a, b, c) == IF a + b + c > 0 THEN 1 ELSE 0
        h == or3((1 - Bit(rd, 3)) * Bit(rr, 3), Bit(rr, 3) * Bit(r, 3),
                 Bit(r, 3) * (1 - Bit(rd, 3)))
        v == or3(rd7 * (1 - rr7) * (1 - r7), (1 - rd7) * rr7 * r7, 0)
        c == or3((1 - rd7) * rr7, rr7 * r7, r7 * (1 - rd7))
    IN  (sreg - (sreg % 64)) + 32 * h + 16 * ((r7 + v) % 2) + 8 * v + 4 * r7
        + 2 * (IF r = 0 THEN 1 ELSE 0) + c

(* flags_sub: the flags of SUB/SBC/CP/CPC.  With set_z false (SBC, CPC) the *)
(* Z flag is only ever cleared.                                            *)
flags_sub(sreg, rd, rr, r, set_z) ==
    LET r7 == Bit(r, 7)
        rd7 == Bit(rd, 7)
        rr7 == Bit(rr, 7)
        r3 == Bit(r, 3)
        rd3 == Bit(rd, 3)
        rr3 == Bit(rr, 3)
        or3(a, b, c) == IF a + b + c > 0 THEN 1 ELSE 0
        h == or3((1 - rd3) * rr3, rr3 * r3, r3 * (1 - rd3))
        v == or3(rd7 * (1 - rr7) * (1 - r7), (1 - rd7) * rr7 * r7, 0)
        n == r7
        c == or3((1 - rd7) * rr7, rr7 * r7, r7 * (1 - rd7))
        s == (n + v) % 2
        z == IF set_z THEN (IF r = 0 THEN 1 ELSE 0)
             ELSE (IF r # 0 THEN 0 ELSE Bit(sreg, 1))
    IN  (sreg - (sreg % 64)) + 32 * h + 16 * s + 8 * v + 4 * n + 2 * z + c

push_word(m, val) ==
    LET d1 == write_raw(m.data, m.cpu.sp, val \div 256)
        sp1 == U16(m.cpu.sp - 1)
        d2 == write_raw(d1, sp1, val % 256)
        sp2 == U16(sp1 - 1)
    IN  [m EXCEPT !.cpu.sp = sp2,
                  !.data = Put(Put(d2, SPH_ADDR, sp2 \div 256), SPL_ADDR, sp2 % 256)]

(* A faulty pop_word that takes the two bytes in the wrong order; the     *)
(* return-address property must reject it.                                 *)
pop_word_swapped(m) ==
    LET sp1 == U16(m.cpu.sp + 1)
        lo == read_raw(m.data, sp1)
        sp2 == U16(sp1 + 1)
        hi == read_raw(m.data, sp2)
    IN  [ m |-> [m EXCEPT !.cpu.sp = sp2,
                          !.data = Put(Put(@, SPH_ADDR, sp2 \div 256), SPL_ADDR, sp2 % 256)],
          val |-> lo * 256 + hi ]

pop_word(m) ==
    LET sp1 == U16(m.cpu.sp + 1)
        lo == read_raw(m.data, sp1)
        sp2 == U16(sp1 + 1)
        hi == read_raw(m.data, sp2)
    IN  [ m |-> [m EXCEPT !.cpu.sp = sp2,
                          !.data = Put(Put(@, SPH_ADDR, sp2 \div 256), SPL_ADDR, sp2 % 256)],
          val |-> hi * 256 + lo ]

----------------------------------------------------------------------------
(* peripherals/spi.rs *)

SpiNew == [spif |-> FALSE, wcol |-> FALSE, spi2x |-> FALSE, spie |-> FALSE, spe |-> FALSE]

SpiHandles(addr) == addr \in {SPCR_ADDR, SPSR_ADDR, SPDR_ADDR}

(* A faulty Spi::write that does not raise SPIF on an SPDR write; the      *)
(* polling property must reject it.                                        *)
SpiWriteNoFlag(s, addr, value) ==
    CASE addr = SPCR_ADDR -> [s EXCEPT !.spie = (Bit(value, 7) = 1), !.spe = (Bit(value, 6) = 1)]
      [] addr = SPSR_ADDR -> [s EXCEPT !.spi2x = (Bit(value, 0) = 1)]
      [] OTHER -> s

SpiWrite(s, addr, value) ==
    CASE addr = SPCR_ADDR -> [s EXCEPT !.spie = (Bit(value, 7) = 1), !.spe = (Bit(value, 6) = 1)]
      [] addr = SPSR_ADDR -> [s EXCEPT !.spi2x = (Bit(value, 0) = 1)]
      [] addr = SPDR_ADDR -> [s EXCEPT !.spif = TRUE]
      [] OTHER -> s

SpiReadSpsr(s) ==
    (IF s.spif THEN 128 ELSE 0) + (IF s.wcol THEN 64 ELSE 0) + (IF s.spi2x THEN 1 ELSE 0)

SpiPending(s) == s.spif /\ s.spie

SpiCheckInterrupt(s) == IF SpiPending(s) THEN [s EXCEPT !.spif = FALSE] ELSE s

----------------------------------------------------------------------------
(* peripherals/adc.rs: the conversion result (a pseudo-random byte pair) is *)
(* not kept; the flags are.                                                *)

ADCSRA_ADDR == 122

AdcNew == [aden |-> FALSE, adsc |-> FALSE, adie |-> FALSE, adif |-> FALSE]

AdcWrite(a, value) ==
    [aden |-> (Bit(value, 7) = 1),
     adsc |-> (Bit(value, 6) = 1 /\ Bit(value, 7) = 0),
     adie |-> (Bit(value, 3) = 1),
     adif |-> (Bit(value, 4) = 1)]

AdcUpdate(a) ==
    IF a.aden /\ a.adie THEN [a EXCEPT !.adif = TRUE, !.adsc = FALSE] ELSE a

AdcPending(a) == a.adif /\ a.adie

AdcCheckInterrupt(a) == IF AdcPending(a) THEN [a EXCEPT !.adif = FALSE] ELSE a

----------------------------------------------------------------------------
(* peripherals/fx_flash.rs: the W25Q128 command engine.  The 16 MiB array   *)
(* is kept as a sparse map whose absent bytes are 0xFF (erased).           *)

FX_FLASH_SIZE == 16777216
FLASH_SIZE == 32768

FxIdle == [st |-> "Idle", cmd |-> 0, n |-> 0, addr |-> 0]

FxIn(st, cmd, n, addr) == [st |-> st, cmd |-> cmd, n |-> n, addr |-> addr]

FxFlashNew == [data |-> EmptyMap, state |-> FxIdle, loaded |-> FALSE,
               write_enabled |-> FALSE, powered_down |-> FALSE]

FxByte(f, idx) == IF idx \in DOMAIN f.data THEN f.data[idx] ELSE 255

FxPutByte(fd, idx, v) ==
    IF v = 255
    THEN [x \in (DOMAIN fd) \ {idx} |-> fd[x]]
    ELSE [x \in (DOMAIN fd) \cup {idx} |-> IF x = idx THEN v ELSE fd[x]]

(* FxFlash::load_data with the image `bin` (a map from offset to byte). *)
FxLoadData(f, bin) == [f EXCEPT !.data = bin, !.loaded = TRUE]

FxDeselect(f) == [f EXCEPT !.state = FxIdle]

(* FxFlash::transfer: returns the engine after the byte and the MISO byte. *)
FxTransferIdle(f, mosi) ==
    CASE mosi = 3 -> [f EXCEPT !.state = FxIn("ReadAddr", 3, 0, 0)]
      [] mosi = 11 -> [f EXCEPT !.state = FxIn("ReadAddr", 11, 0, 0)]
      [] mosi = 159 -> [f EXCEPT !.state = FxIn("JedecId", 0, 0, 0)]
      [] mosi = 171 -> [f EXCEPT !.powered_down = FALSE, !.state = FxIn("ReleasePD", 0, 0, 0)]
      [] mosi = 185 -> [f EXCEPT !.powered_down = TRUE]
      [] mosi = 5 -> [f EXCEPT !.state = FxIn("ReadStatus", 0, 0, 0)]
      [] mosi = 6 -> [f EXCEPT !.write_enabled = TRUE]
      [] mosi = 4 -> [f EXCEPT !.write_enabled = FALSE]
      [] mosi = 2 -> [f EXCEPT !.state = FxIn("ProgAddr", 0, 0, 0)]
      [] mosi = 32 -> [f EXCEPT !.state = FxIn("EraseAddr", 0, 0, 0)]
      [] OTHER -> f

(* The state after the third address byte of a read: Fast Read takes one  *)
(* dummy byte first.                                                       *)
FxReadNoDummy(cmd, masked) == FxIn("Reading", 0, 0, masked)

FxReadStart(cmd, masked) ==
    IF cmd = 11 THEN FxIn("ReadDummy", 0, 0, masked) ELSE FxIn("Reading", 0, 0, masked)

(* The address after a programmed byte: `page_base | ((addr + 1) & 0xFF)`. *)
FxNextLinear(addr) == (addr + 1) % FX_FLASH_SIZE

FxNextInPage(addr) == (addr - (addr % 256)) + ((addr + 1) % 256)

(* The array after the erase of the 4 KiB sector that holds new_addr. *)
FxErasePage(fd, new_addr) ==
    [x \in {y \in DOMAIN fd : y \div 256 # new_addr \div 256} |-> fd[x]]

FxEraseSector(fd, new_addr) ==
    [x \in {y \in DOMAIN fd : y \div 4096 # new_addr \div 4096} |-> fd[x]]

FxTransfer(f, mosi) ==
    LET s == f.state
        new_addr == (s.addr * 256 + mosi)
        new_count == s.n + 1
        masked == new_addr % FX_FLASH_SIZE
    IN
    CASE s.st = "Idle" -> [f |-> FxTransferIdle(f, mosi), miso |-> 255]
      [] s.st = "ReadAddr" ->
            [f |-> [f EXCEPT !.state =
                        IF new_count >= 3
                        THEN FxReadStart(s.cmd, masked)
                        ELSE FxIn("ReadAddr", s.cmd, new_count, new_addr)],
             miso |-> 255]
      [] s.st = "ReadDummy" ->
            [f |-> [f EXCEPT !.state = FxIn("Reading", 0, 0, s.addr)], miso |-> 255]
      [] s.st = "Reading" ->
            [f |-> [f EXCEPT !.state = FxIn("Reading", 0, 0, (s.addr + 1) % FX_FLASH_SIZE)],
             miso |-> FxByte(f, s.addr % FX_FLASH_SIZE)]
      [] s.st = "JedecId" ->
            [f |-> [f EXCEPT !.state = FxIn("JedecId", 0, (s.n + 1) % 256, 0)],
             miso |-> CASE s.n = 0 -> 239 [] s.n = 1 -> 64 [] s.n = 2 -> 24 [] OTHER -> 0]
      [] s.st = "ReleasePD" ->
            [f |-> [f EXCEPT !.state = FxIn("ReleasePD", 0, (s.n + 1) % 256, 0)],
             miso |-> IF s.n >= 3 THEN 23 ELSE 255]
      [] s.st = "ReadStatus" ->
            [f |-> f, miso |-> IF f.write_enabled THEN 2 ELSE 0]
      [] s.st = "ProgAddr" ->
            [f |-> [f EXCEPT !.state =
                        IF new_count >= 3 THEN FxIn("Programming", 0, 0, masked)
                        ELSE FxIn("ProgAddr", 0, new_count, new_addr)],
             miso |-> 255]
      [] s.st = "Programming" ->
            [f |-> IF f.write_enabled /\ f.loaded
                   THEN [f EXCEPT !.data = FxPutByte(@, s.addr % FX_FLASH_SIZE,
                                                     BAnd(FxByte(f, s.addr % FX_FLASH_SIZE), mosi)),
                                  !.state = FxIn("Programming", 0, 0, FxNextInPage(s.addr))]
                   ELSE f,
             miso |-> 255]
      [] s.st = "EraseAddr" ->
            [f |-> IF new_count >= 3
                   THEN [f EXCEPT !.data =
                               IF f.write_enabled /\ f.loaded
                               THEN FxEraseSector(@, new_addr)
                               ELSE @,
                             !.write_enabled = FALSE,
                             !.state = FxIdle]
                   ELSE [f EXCEPT !.state = FxIn("EraseAddr", 0, new_count, new_addr)],
             miso |-> 255]

----------------------------------------------------------------------------
(* peripherals/timer8.rs: Timer/Counter0 and Timer/Counter2.  The cycle     *)
(* differences stay far below 2^32 in the explored runs, so the u32 and    *)
(* u64 casts of the source are exact here.  A timer whose time base lies   *)
(* ahead of the CPU clock (tick.wrapping_sub) has no value in this model.  *)

Unrepresentable == CHOOSE x \in {} : TRUE

TicksSince(tick, base) == IF tick >= base THEN tick - base ELSE Unrepresentable

Timer8Addrs(is_timer2) ==
    IF is_timer2
    THEN [tifr |-> 55, tccr_a |-> 176, tccr_b |-> 177, ocr_a |-> 179, ocr_b |-> 180,
          timsk |-> 112, tcnt |-> 178, is_timer2 |-> TRUE]
    ELSE [tifr |-> 53, tccr_a |-> 68, tccr_b |-> 69, ocr_a |-> 71, ocr_b |-> 72,
          timsk |-> 110, tcnt |-> 70, is_timer2 |-> FALSE]

Timer8Regs(A) == {A.tifr, A.tccr_a, A.tccr_b, A.ocr_a, A.ocr_b, A.timsk, A.tcnt}

Timer8New ==
    [ tick |-> 0, prescale |-> 0, cs |-> 0, mode |-> 0,
      wgm00 |-> FALSE, wgm01 |-> FALSE, wgm02 |-> FALSE,
      ocr0a |-> 0, ocr0b |-> 0, tcnt_shadow |-> 0,
      tov0 |-> 0, ocf0a |-> 0, ocf0b |-> 0,
      toie0 |-> FALSE, ocie0a |-> FALSE, ocie0b |-> FALSE ]

Timer8UpdatePrescale(t, is_timer2) ==
    [t EXCEPT
       !.prescale =
           IF is_timer2
           THEN CASE t.cs = 1 -> 1 [] t.cs = 2 -> 8 [] t.cs = 3 -> 32 [] t.cs = 4 -> 64
                  [] t.cs = 5 -> 128 [] t.cs = 6 -> 256 [] t.cs = 7 -> 1024 [] OTHER -> 0
           ELSE CASE t.cs = 1 -> 1 [] t.cs = 2 -> 8 [] t.cs = 3 -> 64 [] t.cs = 4 -> 256
                  [] t.cs = 5 -> 1024 [] OTHER -> 0,
       !.mode = (IF t.wgm02 THEN 4 ELSE 0) + (IF t.wgm01 THEN 2 ELSE 0)
                + (IF t.wgm00 THEN 1 ELSE 0)]

(* Timer8::write for an address of Timer8Regs(A): the timer and the data   *)
(* array after the write.                                                  *)
Timer8Write(t, A, addr, value, d) ==
    CASE addr = A.tifr ->
            [t |-> [t EXCEPT !.tov0 = IF Bit(value, 0) = 1 THEN 0 ELSE @,
                             !.ocf0a = IF Bit(value, 1) = 1 THEN 0 ELSE @,
                             !.ocf0b = IF Bit(value, 2) = 1 THEN 0 ELSE @],
             data |-> d]
      [] addr = A.tccr_a ->
            [t |-> Timer8UpdatePrescale(
                       [t EXCEPT !.wgm00 = (Bit(value, 0) = 1), !.wgm01 = (Bit(value, 1) = 1)],
                       A.is_timer2),
             data |-> Put(d, addr, value)]
      [] addr = A.tccr_b ->
            [t |-> Timer8UpdatePrescale(
                       [t EXCEPT !.wgm02 = (Bit(value, 3) = 1), !.cs = value % 8],
                       A.is_timer2),
             data |-> Put(d, addr, value)]
      [] addr = A.ocr_a -> [t |-> [t EXCEPT !.ocr0a = value], data |-> Put(d, addr, value)]
      [] addr = A.ocr_b -> [t |-> [t EXCEPT !.ocr0b = value], data |-> Put(d, addr, value)]
      [] addr = A.timsk ->
            [t |-> [t EXCEPT !.toie0 = (Bit(value, 0) = 1),
                             !.ocie0a = (Bit(value, 1) = 1),
                             !.ocie0b = (Bit(value, 2) = 1)],
             data |-> Put(d, addr, value)]
      [] addr = A.tcnt ->
            [t |-> [t EXCEPT !.tcnt_shadow = value], data |-> Put(d, addr, value)]

Timer8Top(t) ==
    IF t.mode = 2 \/ t.mode = 7 THEN (IF t.ocr0a > 0 THEN t.ocr0a ELSE 255) ELSE 255

(* Timer8::update *)
Timer8Update(t, A, tick, d) ==
    IF t.prescale = 0 THEN [t |-> t, data |-> d]
    ELSE
    LET interval == TicksSince(tick, t.tick) \div t.prescale
        old_cnt == t.tcnt_shadow
        new_cnt == old_cnt + interval
        top == Timer8Top(t)
        overflows == new_cnt \div (top + 1)
        remainder == new_cnt % (top + 1)
        ocf0a == IF overflows > 0
                 THEN (IF t.mode = 2 \/ t.mode = 7 THEN t.ocf0a + overflows ELSE t.ocf0a)
                 ELSE (IF old_cnt < t.ocr0a /\ new_cnt >= t.ocr0a /\ t.ocr0a > 0
                       THEN t.ocf0a + 1 ELSE t.ocf0a)
        tov0 == IF overflows > 0 /\ t.mode # 2 THEN t.tov0 + overflows ELSE t.tov0
        ocf0b == IF overflows > 0
                 THEN (IF t.ocr0b > 0 /\ remainder >= t.ocr0b /\ old_cnt < t.ocr0b
                       THEN t.ocf0b + 1 ELSE t.ocf0b)
                 ELSE (IF old_cnt < t.ocr0b /\ new_cnt >= t.ocr0b /\ t.ocr0b > 0
                       THEN t.ocf0b + 1 ELSE t.ocf0b)
    IN  IF interval = 0 THEN [t |-> t, data |-> d]
        ELSE [t |-> [t EXCEPT !.ocf0a = ocf0a, !.tov0 = tov0, !.ocf0b = ocf0b,
                              !.tcnt_shadow = remainder,
                              !.tick = @ + interval * t.prescale],
              data |-> Put(d, A.tcnt, remainder)]

(* A faulty check_interrupt that ignores the enable bits; the dispatch     *)
(* property must reject it.                                                *)
Timer8PickAny(t) ==
    CASE t.ocf0a > 0 -> "compa"
      [] t.ocf0b > 0 -> "compb"
      [] t.tov0 > 0 -> "ovf"
      [] OTHER -> "none"

(* Timer8::check_interrupt: which source fires, if any, in the order of    *)
(* the source; "none" when nothing is pending and enabled.                 *)
Timer8Pick(t) ==
    CASE t.ocf0a > 0 /\ t.ocie0a -> "compa"
      [] t.ocf0b > 0 /\ t.ocie0b -> "compb"
      [] t.tov0 > 0 /\ t.toie0 -> "ovf"
      [] OTHER -> "none"

Timer8Dec(n) == IF n > 0 THEN n - 1 ELSE 0

Timer8CheckInterrupt(t) ==
    CASE Timer8Pick(t) = "compa" -> [t EXCEPT !.ocf0a = Timer8Dec(@)]
      [] Timer8Pick(t) = "compb" -> [t EXCEPT !.ocf0b = Timer8Dec(@)]
      [] Timer8Pick(t) = "ovf" -> [t EXCEPT !.tov0 = Timer8Dec(@)]
      [] OTHER -> t

----------------------------------------------------------------------------
(* peripherals/timer16.rs: Timer/Counter1 and Timer/Counter3 *)

Timer16Addrs(which) ==
    IF which = 1
    THEN [tifr |-> 54, tccr_a |-> 128, tccr_b |-> 129, tccr_c |-> 130,
          ocr_ah |-> 137, ocr_al |-> 136, ocr_bh |-> 139, ocr_bl |-> 138,
          ocr_ch |-> 141, ocr_cl |-> 140, timsk |-> 111, tcnth |-> 133, tcntl |-> 132]
    ELSE [tifr |-> 56, tccr_a |-> 144, tccr_b |-> 145, tccr_c |-> 146,
          ocr_ah |-> 153, ocr_al |-> 152, ocr_bh |-> 155, ocr_bl |-> 154,
          ocr_ch |-> 157, ocr_cl |-> 156, timsk |-> 113, tcnth |-> 148, tcntl |-> 149]

Timer16Regs(A) ==
    {A.tifr, A.tccr_a, A.tccr_b, A.tccr_c, A.ocr_ah, A.ocr_al, A.ocr_bh, A.ocr_bl,
     A.ocr_ch, A.ocr_cl, A.timsk, A.tcnth, A.tcntl}

Timer16New ==
    [ tick |-> 0, prescale |-> 0, tcnt |-> 0, top |-> 65535, ctc |-> FALSE,
      wgm |-> 0, cs |-> 0, ocr_a |-> 0, ocr_b |-> 0, ocr_c |-> 0,
      foc_a |-> FALSE, foc_b |-> FALSE, foc_c |-> FALSE,
      tov |-> 0, ocf_a |-> 0, ocf_b |-> 0, ocf_c |-> 0,
      toie |-> FALSE, ocie_a |-> FALSE, ocie_b |-> FALSE, ocie_c |-> FALSE,
      old_wgm |-> 255 ]

(* Timer16::update_state; wgm holds the four WGM bits as a number. *)
Timer16UpdateState(t) ==
    LET w == t.wgm
        t1 == IF w # t.old_wgm
              THEN [t EXCEPT !.ctc = (w = 4 \/ w = 12),
                             !.top = CASE w = 1 \/ w = 5 -> 255
                                       [] w = 2 \/ w = 6 -> 511
                                       [] w = 3 \/ w = 7 -> 1023
                                       [] OTHER -> 65535,
                             !.old_wgm = w]
              ELSE t
    IN  [t1 EXCEPT !.prescale =
            CASE t.cs = 0 -> 0 [] t.cs = 1 -> 1 [] t.cs = 2 -> 8 [] t.cs = 3 -> 64
              [] t.cs = 4 -> 256 [] t.cs = 5 -> 1024 [] OTHER -> 1]

SetLow(w, value) == (w - (w % 256)) + value

SetHigh(w, value) == (w % 256) + 256 * value

Timer16Write(t, A, addr, value, d) ==
    CASE addr = A.tifr ->
            [t |-> [t EXCEPT !.tov = IF Bit(value, 0) = 1 THEN 0 ELSE @,
                             !.ocf_a = IF Bit(value, 1) = 1 THEN 0 ELSE @,
                             !.ocf_b = IF Bit(value, 2) = 1 THEN 0 ELSE @,
                             !.ocf_c = IF Bit(value, 3) = 1 THEN 0 ELSE @],
             data |-> d]
      [] addr = A.tccr_a ->
            [t |-> Timer16UpdateState(
                       [t EXCEPT !.wgm = (@ - (@ % 4)) + (value % 4)]),
             data |-> Put(d, addr, value)]
      [] addr = A.tccr_b ->
            [t |-> Timer16UpdateState(
                       [t EXCEPT !.wgm = (@ % 4) + 4 * Bit(value, 3) + 8 * Bit(value, 4),
                                 !.cs = value % 8]),
             data |-> Put(d, addr, value)]
      [] addr = A.tccr_c ->
            [t |-> [t EXCEPT !.foc_a = (Bit(value, 7) = 1), !.foc_b = (Bit(value, 6) = 1),
                             !.foc_c = (Bit(value, 5) = 1)],
             data |-> Put(d, addr, value)]
      [] addr = A.ocr_ah -> [t |-> [t EXCEPT !.ocr_a = SetHigh(@, value)], data |-> Put(d, addr, value)]
      [] addr = A.ocr_al -> [t |-> [t EXCEPT !.ocr_a = SetLow(@, value)], data |-> Put(d, addr, value)]
      [] addr = A.ocr_bh -> [t |-> [t EXCEPT !.ocr_b = SetHigh(@, value)], data |-> Put(d, addr, value)]
      [] addr = A.ocr_bl -> [t |-> [t EXCEPT !.ocr_b = SetLow(@, value)], data |-> Put(d, addr, value)]
      [] addr = A.ocr_ch -> [t |-> [t EXCEPT !.ocr_c = SetHigh(@, value)], data |-> Put(d, addr, value)]
      [] addr = A.ocr_cl -> [t |-> [t EXCEPT !.ocr_c = SetLow(@, value)], data |-> Put(d, addr, value)]
      [] addr = A.tcnth -> [t |-> [t EXCEPT !.tcnt = SetHigh(@, value)], data |-> Put(d, addr, value)]
      [] addr = A.tcntl -> [t |-> [t EXCEPT !.tcnt = SetLow(@, value)], data |-> Put(d, addr, value)]
      [] addr = A.timsk ->
            [t |-> [t EXCEPT !.toie = (Bit(value, 0) = 1), !.ocie_a = (Bit(value, 1) = 1),
                             !.ocie_b = (Bit(value, 2) = 1), !.ocie_c = (Bit(value, 3) = 1)],
             data |-> Put(d, addr, value)]

(* Timer16::do_update *)
Timer16DoUpdate(t, tick) ==
    IF t.prescale = 0 THEN t
    ELSE
    LET interval == TicksSince(tick, t.tick) \div t.prescale
        old_tcnt == t.tcnt
        cnt == t.tcnt + interval
        cnt16 == cnt % 65536
        hit_a == t.ocie_a /\ old_tcnt < t.ocr_a /\ cnt16 >= t.ocr_a
        hit_b == t.ocie_b /\ old_tcnt < t.ocr_b /\ cnt16 >= t.ocr_b
        hit_c == t.ocie_c /\ old_tcnt < t.ocr_c /\ cnt16 >= t.ocr_c
    IN  IF interval = 0 THEN t
        ELSE [t EXCEPT !.tcnt = IF hit_a /\ t.ctc /\ ~t.foc_a THEN 0 ELSE cnt16,
                       !.tick = @ + interval * t.prescale,
                       !.ocf_a = IF hit_a THEN @ + 1 ELSE @,
                       !.ocf_b = IF hit_b THEN @ + 1 ELSE @,
                       !.ocf_c = IF hit_c THEN @ + 1 ELSE @,
                       !.tov = @ + (IF cnt \div t.top >= 1 THEN 1 ELSE 0)]

(* Timer16::update *)
Timer16Update(t, A, tick, d) ==
    LET t1 == Timer16DoUpdate(t, tick)
    IN  [t |-> t1,
         data |-> Put(Put(d, A.tcnth, t1.tcnt \div 256), A.tcntl, t1.tcnt % 256)]

Timer16Pick(t) ==
    CASE t.ocf_a > 0 /\ t.ocie_a /\ ~t.foc_a -> "compa"
      [] t.ocf_b > 0 /\ t.ocie_b /\ ~t.foc_b -> "compb"
      [] t.ocf_c > 0 /\ t.ocie_c /\ ~t.foc_c -> "compc"
      [] t.tov > 0 /\ t.toie -> "ovf"
      [] OTHER -> "none"

(* Timer16::check_interrupt: the delivered source's count is set to 0. *)
Timer16Taken(n) == 0

Timer16CheckInterrupt(t) ==
    CASE Timer16Pick(t) = "compa" -> [t EXCEPT !.ocf_a = Timer16Taken(@)]
      [] Timer16Pick(t) = "compb" -> [t EXCEPT !.ocf_b = Timer16Taken(@)]
      [] Timer16Pick(t) = "compc" -> [t EXCEPT !.ocf_c = Timer16Taken(@)]
      [] Timer16Pick(t) = "ovf" -> [t EXCEPT !.tov = Timer16Taken(@)]
      [] OTHER -> t

----------------------------------------------------------------------------
(* peripherals/timer4.rs: the 10-bit high-speed timer.  The control bytes   *)
(* that are only stored for read-back (TCCR4A/C/E, DT4) live in the data   *)
(* array alone.                                                            *)

Timer4Regs == {57, 114, 190, 191, 192, 193, 194, 195, 196, 197, 198, 199,
               207, 208, 209, 210, 212}

Timer4New ==
    [ tcnt |-> 0, tc4h |-> 0, ocr_a |-> 0, ocr_b |-> 0, ocr_c |-> 255, ocr_d |-> 0,
      timsk |-> 0, cs |-> 0, prescale |-> 0, tick |-> 0, wgm |-> 0,
      tov |-> 0, ocf_a |-> 0, ocf_b |-> 0, ocf_d |-> 0 ]

Timer4DecodePrescale(cs) == IF cs = 0 THEN 0 ELSE 2 ^ (cs - 1)

Timer4With10(t, value) == value + 256 * (t.tc4h % 4)

Timer4Write(t, addr, value) ==
    CASE addr = 190 -> [t EXCEPT !.tcnt = Timer4With10(t, value)]
      [] addr = 191 -> [t EXCEPT !.tc4h = value % 4]
      [] addr = 193 ->
            LET p == Timer4DecodePrescale(value % 16)
            IN  [t EXCEPT !.cs = value % 16, !.prescale = p,
                          !.tick = IF p > 0 /\ t.tick = 0 THEN 1 ELSE @]
      [] addr = 195 -> [t EXCEPT !.wgm = value % 4]
      [] addr = 207 -> [t EXCEPT !.ocr_a = Timer4With10(t, value)]
      [] addr = 208 -> [t EXCEPT !.ocr_b = Timer4With10(t, value)]
      [] addr = 209 -> [t EXCEPT !.ocr_c = Timer4With10(t, value)]
      [] addr = 210 -> [t EXCEPT !.ocr_d = Timer4With10(t, value)]
      [] addr = 57 ->
            [t EXCEPT !.tov = IF Bit(value, 2) = 1 THEN 0 ELSE @,
                      !.ocf_a = IF Bit(value, 6) = 1 THEN 0 ELSE @,
                      !.ocf_b = IF Bit(value, 5) = 1 THEN 0 ELSE @,
                      !.ocf_d = IF Bit(value, 7) = 1 THEN 0 ELSE @]
      [] addr = 114 -> [t EXCEPT !.timsk = value]
      [] OTHER -> t

Timer4GetTop(t) == IF t.wgm % 4 = 0 THEN 1023 ELSE t.ocr_c

(* One pass of the counting loop of Timer4::update. *)
Timer4Count(t, top) ==
    LET c == (t.tcnt + 1) % 1024
    IN  [t EXCEPT !.ocf_a = IF c = t.ocr_a THEN @ + 1 ELSE @,
                  !.ocf_b = IF c = t.ocr_b THEN @ + 1 ELSE @,
                  !.ocf_d = IF c = t.ocr_d THEN @ + 1 ELSE @,
                  !.tcnt = IF c >= top THEN 0 ELSE c,
                  !.tov = IF c >= top THEN @ + 1 ELSE @]

RECURSIVE Timer4Loop(_, _, _)
Timer4Loop(t, top, n) == IF n = 0 THEN t ELSE Timer4Loop(Timer4Count(t, top), top, n - 1)

(* Timer4::update *)
Timer4Update(t, current_tick) ==
    IF t.prescale = 0 THEN t
    ELSE
    LET elapsed == IF current_tick >= t.tick THEN current_tick - t.tick ELSE 0
        timer_ticks == elapsed \div t.prescale
    IN  IF timer_ticks = 0 THEN t
        ELSE Timer4Loop([t EXCEPT !.tick = @ + timer_ticks * t.prescale],
                        Timer4GetTop(t),
                        IF timer_ticks < 2048 THEN timer_ticks ELSE 2048)

Timer4Pick(t) ==
    CASE t.ocf_a > 0 /\ Bit(t.timsk, 6) = 1 -> "compa"
      [] t.ocf_b > 0 /\ Bit(t.timsk, 5) = 1 -> "compb"
      [] t.ocf_d > 0 /\ Bit(t.timsk, 7) = 1 -> "compd"
      [] t.tov > 0 /\ Bit(t.timsk, 2) = 1 -> "ovf"
      [] OTHER -> "none"

Timer4CheckInterrupt(t) ==
    CASE Timer4Pick(t) = "compa" -> [t EXCEPT !.ocf_a = @ - 1]
      [] Timer4Pick(t) = "compb" -> [t EXCEPT !.ocf_b = @ - 1]
      [] Timer4Pick(t) = "compd" -> [t EXCEPT !.ocf_d = @ - 1]
      [] Timer4Pick(t) = "ovf" -> [t EXCEPT !.tov = @ - 1]
      [] OTHER -> t

----------------------------------------------------------------------------
(* Interrupt vectors (word addresses): peripherals/mod.rs, timer4.rs, and   *)
(* the address tables built in Arduboy::new_with_cpu.                      *)

Is32u4 == cpu_type = "Atmega32u4"

Timer0Vector(src) ==
    IF Is32u4
    THEN CASE src = "compa" -> 42 [] src = "compb" -> 44 [] src = "ovf" -> 46
    ELSE CASE src = "compa" -> 28 [] src = "compb" -> 30 [] src = "ovf" -> 32

Timer1Vector(src) ==
    IF Is32u4
    THEN CASE src = "compa" -> 34 [] src = "compb" -> 36 [] src = "compc" -> 38
           [] src = "ovf" -> 40
    ELSE CASE src = "compa" -> 22 [] src = "compb" -> 24 [] src = "compc" -> 0
           [] src = "ovf" -> 26

Timer3Vector(src) ==
    CASE src = "compa" -> 64 [] src = "compb" -> 66 [] src = "compc" -> 68 [] src = "ovf" -> 70

Timer4Vector(src) ==
    CASE src = "compa" -> 56 [] src = "compb" -> 60 [] src = "compd" -> 62 [] src = "ovf" -> 72

Timer2Vector(src) ==
    CASE src = "compa" -> 14 [] src = "compb" -> 16 [] src = "ovf" -> 18

INT_SPI == 48
INT_ADC == 58
INT_328P_USART_RX == 36
INT_328P_USART_UDRE == 38
INT_328P_USART_TX == 40

----------------------------------------------------------------------------
(* lib.rs: the data-space bus.  Hooks this model does not cover (PINB/E/F  *)
(* toggles, PORTB side effects on LEDs and the right audio channel, PLL,   *)
(* USB, the ADC result bytes) have no value here: the guest alphabets of   *)
(* the specifications below never touch those addresses.                   *)

(* debugger.rs: the watchpoints and the pending hit.  Every watchpoint is   *)
(* enabled and matches any value, as add_watchpoint creates it; the hit    *)
(* counters are left out.                                                  *)
NoHit == [some |-> FALSE, addr |-> 0, access |-> "none"]

DebuggerNew == [watchpoints |-> {}, watch_hit |-> NoHit]

(* Debugger::check_write / check_read: the first matching access is kept. *)
check_access(g, addr, access) ==
    IF (\E wp \in g.watchpoints : wp.addr = addr /\ wp.kind \in {access, "ReadWrite"})
       /\ ~g.watch_hit.some
    THEN [g EXCEPT !.watch_hit = [some |-> TRUE, addr |-> addr, access |-> access]]
    ELSE g

(* The EEPROM address register pair EEARH:EEARL. *)
Eear(m) == Get(m.data, 65) + 256 * Get(m.data, 66)

UnmodelledWrites ==
    {35, 36, 37, 44, 47, 73}
    \cup (IF Is32u4 THEN {216, 225, 226, 227, 232, 233, 234, 235, 236, 237, 240, 241} ELSE {})

UnmodelledReads ==
    {35, 38, 41, 44, 47, 73, 120, 121}
    \cup (IF Is32u4
          THEN {192, 193, 194, 195, 196, 212, 216, 217, 227, 232, 233, 238, 239, 242, 243}
          ELSE {})

(* Timer8::do_update: the counter refresh done by a TCNT read. *)
Timer8DoUpdate(t, tick) ==
    IF t.prescale = 0 THEN t
    ELSE
    LET interval == TicksSince(tick, t.tick) \div t.prescale
        new_cnt == t.tcnt_shadow + interval
    IN  IF interval = 0 THEN t
        ELSE [t EXCEPT !.tcnt_shadow = new_cnt % (Timer8Top(t) + 1)]

Timer8Tifr(t) ==
    (IF t.tov0 > 0 THEN 1 ELSE 0) + (IF t.ocf0a > 0 THEN 2 ELSE 0)
    + (IF t.ocf0b > 0 THEN 4 ELSE 0)

Timer16Tifr(t) ==
    (IF t.tov > 0 THEN 1 ELSE 0) + (IF t.ocf_a > 0 THEN 2 ELSE 0)
    + (IF t.ocf_b > 0 THEN 4 ELSE 0)

Timer4Read(t, addr) ==
    CASE addr = 190 -> t.tcnt % 256
      [] addr = 191 -> t.tc4h
      [] addr = 207 -> t.ocr_a % 256
      [] addr = 208 -> t.ocr_b % 256
      [] addr = 209 -> t.ocr_c % 256
      [] addr = 210 -> t.ocr_d % 256
      [] addr = 57 -> (IF t.tov > 0 THEN 4 ELSE 0) + (IF t.ocf_a > 0 THEN 64 ELSE 0)
                      + (IF t.ocf_b > 0 THEN 32 ELSE 0) + (IF t.ocf_d > 0 THEN 128 ELSE 0)
      [] addr = 114 -> t.timsk

(* Arduboy::read_data: the machine after the read (a TCNT read refreshes    *)
(* the timer) and the byte read.                                           *)
read_data(m, addr) ==
    LET A0 == Timer8Addrs(FALSE)
        A1 == Timer16Addrs(1)
        A3 == Timer16Addrs(3)
        A2 == Timer8Addrs(TRUE)
        tick == m.cpu.tick
    IN
    CASE addr \in UnmodelledReads -> Unrepresentable
      [] addr = EEDR_ADDR -> [m |-> m, val |-> FxByte([data |-> m.eeprom], Eear(m))]
      [] addr = A0.tifr -> [m |-> m, val |-> Timer8Tifr(m.timer0)]
      [] addr = A0.tcnt ->
            LET t == Timer8DoUpdate(m.timer0, tick)
            IN  [m |-> [m EXCEPT !.timer0 = t], val |-> t.tcnt_shadow]
      [] addr = A1.tifr -> [m |-> m, val |-> Timer16Tifr(m.timer1)]
      [] addr = A1.tccr_c -> [m |-> m, val |-> 0]
      [] addr \in {A1.tcnth, A1.tcntl} ->
            LET t == Timer16DoUpdate(m.timer1, tick)
            IN  [m |-> [m EXCEPT !.timer1 = t],
                 val |-> IF addr = A1.tcnth THEN t.tcnt \div 256 ELSE t.tcnt % 256]
      [] addr = A3.tifr -> [m |-> m, val |-> Timer16Tifr(m.timer3)]
      [] addr = A3.tccr_c -> [m |-> m, val |-> 0]
      [] addr \in {A3.tcnth, A3.tcntl} ->
            LET t == Timer16DoUpdate(m.timer3, tick)
            IN  [m |-> [m EXCEPT !.timer3 = t],
                 val |-> IF addr = A3.tcnth THEN t.tcnt \div 256 ELSE t.tcnt % 256]
      [] Is32u4 /\ addr \in {57, 114, 190, 191, 207, 208, 209, 210} ->
            [m |-> m, val |-> Timer4Read(m.timer4, addr)]
      [] ~Is32u4 /\ addr = A2.tifr -> [m |-> m, val |-> Timer8Tifr(m.timer2)]
      [] ~Is32u4 /\ addr = A2.tcnt ->
            LET t == Timer8DoUpdate(m.timer2, tick)
            IN  [m |-> [m EXCEPT !.timer2 = t], val |-> t.tcnt_shadow]
      [] addr = SPSR_ADDR -> [m |-> m, val |-> SpiReadSpsr(m.spi)]
      [] addr = ADCSRA_ADDR ->
            [m |-> m,
             val |-> (IF m.adc.aden THEN 128 ELSE 0) + (IF m.adc.adsc THEN 64 ELSE 0)
                     + (IF m.adc.adif THEN 16 ELSE 0)
                     + (IF m.adc.adie THEN 8 ELSE 0)]
      [] ~Is32u4 /\ addr = 192 ->
            [m |-> m, val |-> 32 + 64 * Bit(Get(m.data, 192), 6)]
      [] ~Is32u4 /\ addr = 198 -> [m |-> m, val |-> 0]
      [] OTHER -> [m |-> IF addr < DataSize
                         THEN [m EXCEPT !.debugger = check_access(@, addr, "Read")]
                         ELSE m,
                   val |-> IF addr < DataSize THEN Get(m.data, addr) ELSE 0]

(* audio_buffer.rs: ChannelBuffer::new inside AudioBuffer::new, with the   *)
(* Arduboy field speaker_prev_pc6.                                         *)
AudioNew == [speaker_prev_pc6 |-> FALSE, left |-> [edges |-> << >>, level |-> FALSE]]

(* A faulty ChannelBuffer::push that records the edge whatever the level. *)
ChannelPushAlways(c, tick, level) ==
    [edges |-> Append(c.edges, [tick |-> tick, level |-> level]), level |-> level]

(* audio_buffer.rs: ChannelBuffer::push. *)
ChannelPush(c, tick, level) ==
    IF level # c.level
    THEN [edges |-> Append(c.edges, [tick |-> tick, level |-> level]), level |-> level]
    ELSE c

(* write_data: the speaker-pin transition detector of PORTC (PC6) and, on  *)
(* the 328P, of PORTD (PD3); both use speaker_prev_pc6 and the left        *)
(* channel.                                                                *)
SpeakerWrite(m, new_level) ==
    IF new_level # m.audio.speaker_prev_pc6
    THEN [m EXCEPT !.audio = [speaker_prev_pc6 |-> new_level,
                              left |-> ChannelPush(@.left, m.cpu.tick, new_level)]]
    ELSE m

(* write_data, PORTC arm: the speaker detector, then the store. *)
WritePortC(m, value) ==
    [SpeakerWrite(m, Bit(value, 6) = 1) EXCEPT !.data = Put(@, PORTC_ADDR, value)]

(* write_data, PORTD arm: store, then the 328P speaker detector and the FX *)
(* chip-select edge detector.                                              *)
WritePortD(m, value) ==
    LET m0 == [m EXCEPT !.data = Put(@, PORTD_ADDR, value)]
        m1 == IF Is32u4 THEN m0 ELSE SpeakerWrite(m0, Bit(value, 3) = 1)
        new_cs_high == Bit(value, 1) = 1
    IN  IF m.fx_flash.loaded /\ Bit(Get(m1.data, DDRD_ADDR), 1) = 1
        THEN [m1 EXCEPT
                !.fx_flash = IF new_cs_high /\ ~m.fx_cs_prev THEN FxDeselect(@) ELSE @,
                !.dbg.fx_cs_count = IF new_cs_high /\ ~m.fx_cs_prev THEN @ + 1 ELSE @,
                !.fx_cs_prev = new_cs_high]
        ELSE m1

(* A faulty fx_cs_active that ignores the level of PD1; the chip-select    *)
(* property must reject it.                                                *)
FxCsActiveAnyLevel(m) ==
    /\ m.fx_flash.loaded
    /\ Bit(Get(m.data, DDRD_ADDR), 1) = 1

(* Whether the FX flash sees the SPI byte: write_data's fx_cs_active. *)
FxCsActive(m) ==
    /\ m.fx_flash.loaded
    /\ Bit(Get(m.data, DDRD_ADDR), 1) = 1
    /\ Bit(Get(m.data, PORTD_ADDR), 1) = 0

(* write_data, SPI arm. *)
WriteSpi(m, addr, value) ==
    LET m1 == [m EXCEPT !.spi = SpiWrite(@, addr, value), !.data = Put(@, addr, value)]
        x == FxTransfer(m.fx_flash, value)
        m2 == IF FxCsActive(m1)
              THEN [m1 EXCEPT !.fx_flash = x.f, !.spdr_in = x.miso,
                              !.data = Put(@, SPDR_ADDR, x.miso),
                              !.dbg.fx_transfers = @ + 1]
              ELSE [m1 EXCEPT !.spdr_in = 255]
    IN  IF addr = SPDR_ADDR
        THEN [m2 EXCEPT
                !.spi_out = Append(@, [byte |-> value,
                                       portd |-> Get(m1.data, PORTD_ADDR),
                                       portf |-> Get(m1.data, PORTF_ADDR),
                                       portc |-> Get(m1.data, PORTC_ADDR),
                                       n |-> m.dbg.spdr_writes]),
                !.dbg.spdr_writes = @ + 1]
        ELSE m1

(* write_data, USART0 arm (ATmega328P). *)
WriteUsart(m, addr, value) ==
    CASE addr = 192 ->
            [m EXCEPT !.data = Put(@, 192, IF Bit(value, 6) = 1 THEN ClrBit(Get(@, 192), 6)
                                                             ELSE Get(@, 192))]
      [] addr = 198 ->
            [m EXCEPT !.data = Put(@, 192, SetBit(SetBit(Get(@, 192), 5), 6))]
      [] OTHER -> [m EXCEPT !.data = Put(@, addr, value)]

(* Arduboy::write_data, the EEPROM control arm: a write of EECR with EEPE   *)
(* (bit 1) set stores EEDR at the address in EEARH:EEARL when that address *)
(* is inside the EEPROM; EECR keeps the value with EEPE cleared.           *)
WriteEecrAlways(m, value) ==
    [m EXCEPT !.eeprom = IF Eear(m) < EEPROM_SIZE
                         THEN FxPutByte(@, Eear(m), Get(m.data, EEDR_ADDR)) ELSE @,
              !.data = Put(@, EECR_ADDR, ClrBit(value, 1))]

WriteEecr(m, value) ==
    [m EXCEPT !.eeprom = IF Bit(value, 1) = 1 /\ Eear(m) < EEPROM_SIZE
                         THEN FxPutByte(@, Eear(m), Get(m.data, EEDR_ADDR)) ELSE @,
              !.data = Put(@, EECR_ADDR, ClrBit(value, 1))]

(* Arduboy::write_data after the watchpoint check: the peripheral hooks. *)
write_hooks(m, addr, value) ==
    LET A0 == Timer8Addrs(FALSE)
        A1 == Timer16Addrs(1)
        A3 == Timer16Addrs(3)
        A2 == Timer8Addrs(TRUE)
    IN
    CASE addr \in UnmodelledWrites -> Unrepresentable
      [] addr = EECR_ADDR -> WriteEecr(m, value)
      [] addr = PIND_ADDR -> WritePortD(m, BXor(Get(m.data, PORTD_ADDR), value))
      [] addr = PORTD_ADDR -> WritePortD(m, value)
      [] addr = 38 -> WritePortC(m, BXor(Get(m.data, PORTC_ADDR), value))
      [] addr = PORTC_ADDR -> WritePortC(m, value)
      [] addr \in {39, DDRD_ADDR, 45, 46, 48, 49} -> [m EXCEPT !.data = Put(@, addr, value)]
      [] addr = SPH_ADDR ->
            [m EXCEPT !.cpu.sp = SetHigh(@, value), !.data = Put(@, addr, value)]
      [] addr = SPL_ADDR ->
            [m EXCEPT !.cpu.sp = SetLow(@, value), !.data = Put(@, addr, value)]
      [] addr = SREG_ADDR ->
            [m EXCEPT !.cpu.sreg = value, !.data = Put(@, addr, value)]
      [] addr \in Timer8Regs(A0) ->
            LET r == Timer8Write(m.timer0, A0, addr, value, m.data)
            IN  [m EXCEPT !.timer0 = r.t, !.data = r.data]
      [] addr \in Timer16Regs(A1) ->
            LET r == Timer16Write(m.timer1, A1, addr, value, m.data)
            IN  [m EXCEPT !.timer1 = r.t, !.data = r.data]
      [] addr \in Timer16Regs(A3) ->
            LET r == Timer16Write(m.timer3, A3, addr, value, m.data)
            IN  [m EXCEPT !.timer3 = r.t, !.data = r.data]
      [] Is32u4 /\ addr \in Timer4Regs ->
            [m EXCEPT !.timer4 = Timer4Write(@, addr, value), !.data = Put(@, addr, value)]
      [] ~Is32u4 /\ addr \in Timer8Regs(A2) ->
            LET r == Timer8Write(m.timer2, A2, addr, value, m.data)
            IN  [m EXCEPT !.timer2 = r.t, !.data = r.data]
      [] SpiHandles(addr) -> WriteSpi(m, addr, value)
      [] addr = ADCSRA_ADDR ->
            [m EXCEPT !.adc = AdcWrite(@, value), !.data = Put(@, addr, value)]
      [] ~Is32u4 /\ addr \in {192, 193, 194, 196, 197, 198} -> WriteUsart(m, addr, value)
      [] OTHER -> [m EXCEPT !.data = IF addr < DataSize THEN Put(@, addr, value) ELSE @]

(* Arduboy::write_data: the watchpoint check, then the hooks. *)
write_data(m, addr, value) ==
    write_hooks([m EXCEPT !.debugger = check_access(@, addr, "Write")], addr, value)

(* Arduboy::write_bit: r is the result of the read that comes first. *)
write_bit_after(r, addr, bit, bvalue) ==
    write_data(r.m, addr, IF bvalue THEN SetBit(r.val, bit) ELSE ClrBit(r.val, bit))

write_bit(m, addr, bit, bvalue) == write_bit_after(read_data(m, addr), addr, bit, bvalue)

----------------------------------------------------------------------------
(* cpu.rs: Arduboy::execute_inst for the instructions of the guest          *)
(* alphabets.  An instruction is [op, a, b]: the mnemonic and its operands *)
(* in the order of the source's Instruction variant.                       *)

Inst(op, a, b) == [op |-> op, a |-> a, b |-> b]

(* opcodes::decode: the size in words. *)
InstSize(op) == IF op \in {"Lds", "Sts", "Call", "Jmp"} THEN 2 ELSE 1

Done(m, cycles) == [m |-> m, cycles |-> cycles]

SetFlag(m, bit) == sync_sreg([m EXCEPT !.cpu.sreg = SetBit(@, bit)])

ClrFlag(m, bit) == sync_sreg([m EXCEPT !.cpu.sreg = ClrBit(@, bit)])

(* The tail of LDS and IN: r is the result of read_data. *)
load_reg(r, d, cycles) == Done(set_reg(r.m, d, r.val), cycles)

(* The tail of OUT: m1 is the machine after write_data; the CPU fields are  *)
(* assigned again from the value written.                                  *)
out_sync(m1, a, v) ==
    CASE a = SREG_ADDR -> [m1 EXCEPT !.cpu.sreg = v]
      [] a = SPH_ADDR -> [m1 EXCEPT !.cpu.sp = SetHigh(@, v)]
      [] a = SPL_ADDR -> [m1 EXCEPT !.cpu.sp = SetLow(@, v)]
      [] OTHER -> m1

(* The tail of RET and RETI: r is the result of pop_word. *)
ret_to(r) == [r.m EXCEPT !.cpu.pc = r.val]

(* memory.rs: Memory::reg_pair / set_reg_pair; pair 1 is X, pair 3 is Z. *)
reg_pair(m, pair) == Get(m.data, 24 + 2 * pair) + 256 * Get(m.data, 25 + 2 * pair)

set_reg_pair(m, pair, v) ==
    [m EXCEPT !.data = Put(Put(@, 24 + 2 * pair, v % 256), 25 + 2 * pair, v \div 256)]

(* The S, V, N, Z and C flags of ADIW (add) and SBIW. *)
flags_word(sreg, val, res, add) ==
    LET rdh7 == Bit(val, 15)
        r15 == Bit(res, 15)
        v == IF add THEN (1 - rdh7) * r15 ELSE rdh7 * (1 - r15)
        c == IF add THEN (1 - r15) * rdh7 ELSE r15 * (1 - rdh7)
        z == IF res = 0 THEN 1 ELSE 0
        sv == (r15 + v) % 2
    IN  (sreg - (sreg % 32)) + 16 * sv + 8 * v + 4 * r15 + 2 * z + c

execute_inst(m0, inst) ==
    LET m == [m0 EXCEPT !.cpu.pc = U16(@ + InstSize(inst.op))]
        op == inst.op
    IN
    CASE op = "Nop" -> Done(m, 1)
      [] op = "Add" ->
            LET rd == reg(m, inst.a)
                rr == reg(m, inst.b)
                res == U8(rd + rr)
            IN  Done(sync_sreg([set_reg(m, inst.a, res) EXCEPT
                                   !.cpu.sreg = flags_add(@, rd, rr, res)]), 1)
      [] op = "Cp" ->
            Done(sync_sreg([m EXCEPT !.cpu.sreg =
                    flags_sub(@, reg(m, inst.a), reg(m, inst.b),
                              U8(reg(m, inst.a) - reg(m, inst.b)), TRUE)]), 1)
      [] op = "Cpc" ->
            Done(sync_sreg([m EXCEPT !.cpu.sreg =
                    flags_sub(@, reg(m, inst.a), reg(m, inst.b),
                              U8(reg(m, inst.a) - reg(m, inst.b) - Bit(@, SREG_C)),
                              FALSE)]), 1)
      [] op = "Ldi" -> Done(set_reg(m, inst.a, inst.b), 1)
      [] op = "Lds" -> load_reg(read_data(m, inst.b), inst.a, 2)
      [] op = "Sts" -> Done(write_data(m, inst.a, reg(m, inst.b)), 2)
      [] op = "Push" ->
            LET sp1 == U16(m.cpu.sp - 1)
            IN  Done([m EXCEPT
                        !.data = Put(Put(write_raw(@, m.cpu.sp, reg(m, inst.a)),
                                         SPH_ADDR, sp1 \div 256), SPL_ADDR, sp1 % 256),
                        !.cpu.sp = sp1], 2)
      [] op = "Pop" ->
            LET sp1 == U16(m.cpu.sp + 1)
                d1 == Put(Put(m.data, SPH_ADDR, sp1 \div 256), SPL_ADDR, sp1 % 256)
            IN  Done([m EXCEPT !.data = Put(d1, inst.a, read_raw(d1, sp1)),
                               !.cpu.sp = sp1], 2)
      [] op = "Sbi" -> Done(write_bit(m, inst.a, inst.b, TRUE), 2)
      [] op = "Cbi" -> Done(write_bit(m, inst.a, inst.b, FALSE), 2)
      [] op = "Rcall" ->
            LET m1 == push_word(m, m.cpu.pc)
            IN  Done([m1 EXCEPT !.cpu.pc = U16(m.cpu.pc + inst.a)], 3)
      [] op = "Ret" -> Done(ret_to(pop_word(m)), 4)
      [] op = "Reti" ->
            Done(sync_sreg([ret_to(pop_word(m)) EXCEPT !.cpu.sreg = SetBit(@, SREG_I)]), 4)
      [] op = "Jmp" -> Done([m EXCEPT !.cpu.pc = inst.a], 3)
      [] op = "Call" ->
            LET m1 == push_word(m, m.cpu.pc)
            IN  Done([m1 EXCEPT !.cpu.pc = inst.a], 4)
      [] op = "In" -> load_reg(read_data(m, inst.b), inst.a, 1)
      [] op = "Out" ->
            Done(out_sync(write_data(m, inst.a, reg(m, inst.b)), inst.a, reg(m, inst.b)), 1)
      [] op = "Sei" -> Done(SetFlag(m, SREG_I), 1)
      [] op = "Cli" -> Done(ClrFlag(m, SREG_I), 1)
      [] op = "Sec" -> Done(SetFlag(m, SREG_C), 1)
      [] op = "Clc" -> Done(ClrFlag(m, SREG_C), 1)
      [] op \in {"Adiw", "Sbiw"} ->
            LET pi == (inst.a - 24) \div 2
                val == reg_pair(m, pi)
                res == IF op = "Adiw" THEN U16(val + inst.b) ELSE U16(val + 65536 - inst.b)
            IN  Done(sync_sreg([set_reg_pair(m, pi, res) EXCEPT
                                   !.cpu.sreg = flags_word(@, val, res, op = "Adiw")]), 2)
      [] op = "Mul" ->
            LET res == reg(m, inst.a) * reg(m, inst.b)
                m1 == set_reg(set_reg(m, 0, res % 256), 1, res \div 256)
            IN  Done(sync_sreg([m1 EXCEPT
                                   !.cpu.sreg = (@ - (@ % 4)) + 2 * (IF res = 0 THEN 1 ELSE 0)
                                                + Bit(res, 15)]), 2)
      [] op = "LdX" -> load_reg(read_data(m, reg_pair(m, 1)), inst.a, 2)
      [] op = "StX" -> Done(write_data(m, reg_pair(m, 1), reg(m, inst.a)), 2)
      [] op = "Lpm0" -> Done(set_reg(m, 0, Get(flash, reg_pair(m, 3))), 3)
      [] op = "Sleep" -> Done([m EXCEPT !.cpu.sleeping = TRUE], 1)
      [] op = "Wdr" -> Done(m, 1)

----------------------------------------------------------------------------
(* lib.rs: Arduboy::flush_spi.  The display controllers are represented by  *)
(* the stream of receive_command / receive_data calls they get (disp_rx).  *)

(* The (is_data, cs_high) decision for one buffered byte, with the display *)
(* type and PCD8544 pin assignment after the auto-detection step.          *)
SpiDecode(m, e) ==
    LET ddrc == Get(m.data, 39)
        low_out == {b \in 0..5 : Bit(ddrc, b) = 1 /\ Bit(e.portc, b) = 0}
        lo1 == CHOOSE b \in low_out : \A c \in low_out : b <= c
        lo2 == CHOOSE b \in low_out \ {lo1} : \A c \in low_out \ {lo1} : b <= c
        ardu == Bit(e.portd, 6) = 0 /\ Bit(e.portd, 4) = 0
        gb == Bit(e.portf, 6) = 0 /\ Bit(e.portf, 5) = 0
        dt == IF ardu /\ e.byte >= 128 THEN "Ssd1306"
              ELSE IF gb /\ e.byte \in {32, 33} THEN "Pcd8544"
              ELSE "Unknown"
        none == [is_data |-> TRUE, cs_high |-> TRUE,
                 display_type |-> m.display_type, pcd_pins |-> m.pcd_pins]
    IN
    IF ~Is32u4
    THEN IF m.pcd_pins.cs = 255
         THEN IF Cardinality(low_out) >= 2 /\ e.byte \in {32, 33}
              THEN [is_data |-> FALSE, cs_high |-> FALSE, display_type |-> "Pcd8544",
                    pcd_pins |-> [cs |-> lo2, dc |-> lo1]]
              ELSE none
         ELSE [none EXCEPT !.is_data = Bit(e.portc, m.pcd_pins.dc) = 1,
                           !.cs_high = Bit(e.portc, m.pcd_pins.cs) = 1]
    ELSE CASE m.display_type = "Ssd1306" ->
                [none EXCEPT !.is_data = Bit(e.portd, 4) = 1, !.cs_high = Bit(e.portd, 6) = 1]
           [] m.display_type = "Pcd8544" ->
                [none EXCEPT !.is_data = Bit(e.portf, 5) = 1, !.cs_high = Bit(e.portf, 6) = 1]
           [] OTHER ->
                IF dt = "Pcd8544"
                THEN [none EXCEPT !.is_data = Bit(e.portf, 5) = 1,
                                  !.cs_high = Bit(e.portf, 6) = 1,
                                  !.display_type = dt]
                ELSE [none EXCEPT !.is_data = Bit(e.portd, 4) = 1,
                                  !.cs_high = Bit(e.portd, 6) = 1,
                                  !.display_type = dt]

(* A faulty loop body that runs the auto-detection on every byte, also     *)
(* after the display type is known.                                        *)
Deliver_redetect(m, e, batch, r) ==
    LET r2 == SpiDecode([m EXCEPT !.display_type = "Unknown"], e)
        m1 == [m EXCEPT !.display_type = r2.display_type, !.pcd_pins = r2.pcd_pins]
    IN  IF r2.cs_high THEN m1
        ELSE [m1 EXCEPT !.disp_rx =
                 Append(@, [ctrl |-> IF r2.display_type = "Pcd8544" THEN "pcd8544"
                                                                    ELSE "ssd1306",
                            is_data |-> r2.is_data, byte |-> e.byte, n |-> e.n,
                            batch |-> batch])]

(* The body of flush_spi's loop for one buffered byte; r is the decision   *)
(* of SpiDecode for it.                                                    *)
Deliver(m, e, batch, r) ==
    LET m1 == [m EXCEPT !.display_type = r.display_type, !.pcd_pins = r.pcd_pins]
    IN  IF r.cs_high THEN m1
        ELSE [m1 EXCEPT !.disp_rx =
                 Append(@, [ctrl |-> IF r.display_type = "Pcd8544" THEN "pcd8544"
                                                                   ELSE "ssd1306",
                            is_data |-> r.is_data, byte |-> e.byte, n |-> e.n,
                            batch |-> batch])]

FlushOne(m, e, batch) == Deliver(m, e, batch, SpiDecode(m, e))

RECURSIVE FlushFrom(_, _, _)
FlushFrom(m, bytes, batch) ==
    IF bytes = << >> THEN m
    ELSE FlushFrom(FlushOne(m, Head(bytes), batch), Tail(bytes), batch)

(* The number of this flush among those that delivered bytes. *)
NextBatch(m) == IF m.disp_rx = << >> THEN 1 ELSE m.disp_rx[Len(m.disp_rx)].batch + 1

(* A faulty flush_spi that leaves the buffer filled; the ordering property *)
(* must reject it.                                                         *)
flush_spi_keep(m) == FlushFrom(m, m.spi_out, NextBatch(m))

flush_spi(m) == FlushFrom([m EXCEPT !.spi_out = << >>], m.spi_out, NextBatch(m))

----------------------------------------------------------------------------
(* lib.rs: Arduboy::do_interrupt.  The two stores index the data array      *)
(* directly: an SP outside the array panics.                               *)

do_interrupt(m, vector) ==
    LET pc == m.cpu.pc
        sp0 == m.cpu.sp
        sp1 == U16(sp0 - 1)
        sp2 == U16(sp1 - 1)
        d2 == Put(Put(m.data, sp0, pc \div 256), sp1, pc % 256)
        d4 == Put(Put(d2, SPH_ADDR, sp2 \div 256), SPL_ADDR, sp2 % 256)
        sreg == ClrBit(m.cpu.sreg, SREG_I)
    IN  IF sp0 >= DataSize THEN [m EXCEPT !.panicked = TRUE]
        ELSE IF sp1 >= DataSize
        THEN [m EXCEPT !.data = Put(@, sp0, pc \div 256), !.cpu.sp = sp1, !.panicked = TRUE]
        ELSE [m EXCEPT !.data = Put(d4, SREG_ADDR, sreg),
                       !.cpu.sp = sp2, !.cpu.sreg = sreg, !.cpu.pc = vector,
                       !.cpu.tick = @ + 5]

----------------------------------------------------------------------------
(* History kept for stating properties.  The dispatch record describes the *)
(* machine at the moment update_peripherals decided to enter an interrupt: *)
(* the source, its enable bit and pending count read from the peripheral,  *)
(* the I flag, and every timer source that was pending and enabled then.   *)

NoIrq == [vec |-> -1, unit |-> "none", src |-> "none", ie |-> FALSE, enabled |-> FALSE,
          pre |-> 0, post |-> 0, ready |-> {}, pc |-> 0, sp |-> 0]

(* Pending count of a timer source, read from the timer's fields. *)
SourceCount(m, unit, src) ==
    LET t8 == IF unit = "timer0" THEN m.timer0 ELSE m.timer2
        t16 == IF unit = "timer1" THEN m.timer1 ELSE m.timer3
    IN
    CASE unit \in {"timer0", "timer2"} /\ src = "compa" -> t8.ocf0a
      [] unit \in {"timer0", "timer2"} /\ src = "compb" -> t8.ocf0b
      [] unit \in {"timer0", "timer2"} /\ src = "ovf" -> t8.tov0
      [] unit \in {"timer1", "timer3"} /\ src = "compa" -> t16.ocf_a
      [] unit \in {"timer1", "timer3"} /\ src = "compb" -> t16.ocf_b
      [] unit \in {"timer1", "timer3"} /\ src = "compc" -> t16.ocf_c
      [] unit \in {"timer1", "timer3"} /\ src = "ovf" -> t16.tov
      [] unit = "timer4" /\ src = "compa" -> m.timer4.ocf_a
      [] unit = "timer4" /\ src = "compb" -> m.timer4.ocf_b
      [] unit = "timer4" /\ src = "compd" -> m.timer4.ocf_d
      [] unit = "timer4" /\ src = "ovf" -> m.timer4.tov
      [] unit = "spi" -> IF m.spi.spif THEN 1 ELSE 0
      [] unit = "adc" -> IF m.adc.adif THEN 1 ELSE 0
      [] unit = "usart" /\ src = "udre" -> Bit(Get(m.data, 192), 5)
      [] unit = "usart" /\ src = "tx" -> Bit(Get(m.data, 192), 6)
      [] unit = "usart" /\ src = "rx" -> Bit(Get(m.data, 192), 7)

(* Enable bit of a source, read from the peripheral's fields. *)
SourceEnabled(m, unit, src) ==
    LET t8 == IF unit = "timer0" THEN m.timer0 ELSE m.timer2
        t16 == IF unit = "timer1" THEN m.timer1 ELSE m.timer3
    IN
    CASE unit \in {"timer0", "timer2"} /\ src = "compa" -> t8.ocie0a
      [] unit \in {"timer0", "timer2"} /\ src = "compb" -> t8.ocie0b
      [] unit \in {"timer0", "timer2"} /\ src = "ovf" -> t8.toie0
      [] unit \in {"timer1", "timer3"} /\ src = "compa" -> t16.ocie_a
      [] unit \in {"timer1", "timer3"} /\ src = "compb" -> t16.ocie_b
      [] unit \in {"timer1", "timer3"} /\ src = "compc" -> t16.ocie_c
      [] unit \in {"timer1", "timer3"} /\ src = "ovf" -> t16.toie
      [] unit = "timer4" /\ src = "compa" -> Bit(m.timer4.timsk, 6) = 1
      [] unit = "timer4" /\ src = "compb" -> Bit(m.timer4.timsk, 5) = 1
      [] unit = "timer4" /\ src = "compd" -> Bit(m.timer4.timsk, 7) = 1
      [] unit = "timer4" /\ src = "ovf" -> Bit(m.timer4.timsk, 2) = 1
      [] unit = "spi" -> m.spi.spie
      [] unit = "adc" -> m.adc.adie
      [] unit = "usart" /\ src = "udre" -> Bit(Get(m.data, 193), 5) = 1
      [] unit = "usart" /\ src = "tx" -> Bit(Get(m.data, 193), 6) = 1
      [] unit = "usart" /\ src = "rx" -> Bit(Get(m.data, 193), 7) = 1

(* The timer sources of this CPU with their vectors. *)
TimerSources ==
    {[unit |-> "timer0", src |-> s, vec |-> Timer0Vector(s)] : s \in {"compa", "compb", "ovf"}}
    \cup {[unit |-> "timer1", src |-> s, vec |-> Timer1Vector(s)] :
             s \in {"compa", "compb", "compc", "ovf"}}
    \cup (IF Is32u4
          THEN {[unit |-> "timer3", src |-> s, vec |-> Timer3Vector(s)] :
                   s \in {"compa", "compb", "compc", "ovf"}}
               \cup {[unit |-> "timer4", src |-> s, vec |-> Timer4Vector(s)] :
                        s \in {"compa", "compb", "compd", "ovf"}}
          ELSE {[unit |-> "timer2", src |-> s, vec |-> Timer2Vector(s)] :
                   s \in {"compa", "compb", "ovf"}})

(* Vectors of the timer sources pending and enabled in machine m. *)
PendingTimerVectors(m) ==
    {s.vec : s \in {x \in TimerSources :
                        SourceCount(m, x.unit, x.src) > 0 /\ SourceEnabled(m, x.unit, x.src)}}

----------------------------------------------------------------------------
(* lib.rs: Arduboy::update_peripherals *)

(* A dispatch arm that leaves the sleeping flag as it is. *)
Dispatch_asleep(at, taken, unit, src, vec) ==
    [do_interrupt(taken, vec) EXCEPT
        !.hist.irq = [vec |-> vec, unit |-> unit, src |-> src,
                      ie |-> Bit(at.cpu.sreg, SREG_I) = 1,
                      enabled |-> SourceEnabled(at, unit, src),
                      pre |-> SourceCount(at, unit, src),
                      post |-> SourceCount(taken, unit, src),
                      ready |-> PendingTimerVectors(at),
                      pc |-> at.cpu.pc, sp |-> at.cpu.sp]]

(* One dispatch arm: `sleeping = false; do_interrupt(vec); return`.  at is *)
(* the machine when the source was checked, taken the machine after the    *)
(* source's check_interrupt.                                               *)
Dispatch(at, taken, unit, src, vec) ==
    [do_interrupt([taken EXCEPT !.cpu.sleeping = FALSE], vec) EXCEPT
        !.hist.irq = [vec |-> vec, unit |-> unit, src |-> src,
                      ie |-> Bit(at.cpu.sreg, SREG_I) = 1,
                      enabled |-> SourceEnabled(at, unit, src),
                      pre |-> SourceCount(at, unit, src),
                      post |-> SourceCount(taken, unit, src),
                      ready |-> PendingTimerVectors(at),
                      pc |-> at.cpu.pc, sp |-> at.cpu.sp]]

(* ADC stage, the last of update_peripherals. *)
AdcStage(m1, ie) ==
    IF ie /\ AdcPending(m1.adc)
    THEN Dispatch(m1, [m1 EXCEPT !.adc = AdcCheckInterrupt(@)], "adc", "adc", INT_ADC)
    ELSE m1

UpdateAdc(m, ie) ==
    CHOOSE r \in { AdcStage(m1, ie) : m1 \in {[m EXCEPT !.adc = AdcUpdate(@)]} } : TRUE

(* USART0 stage (ATmega328P). *)
UpdateUsart(m, ie) ==
    LET a == Get(m.data, 192)
        b == Get(m.data, 193)
    IN  IF ie /\ ~Is32u4 /\ Bit(b, 5) = 1 /\ Bit(a, 5) = 1
        THEN Dispatch(m, m, "usart", "udre", INT_328P_USART_UDRE)
        ELSE IF ie /\ ~Is32u4 /\ Bit(b, 6) = 1 /\ Bit(a, 6) = 1
        THEN Dispatch(m, [m EXCEPT !.data = Put(@, 192, ClrBit(a, 6))],
                      "usart", "tx", INT_328P_USART_TX)
        ELSE IF ie /\ ~Is32u4 /\ Bit(b, 7) = 1 /\ Bit(a, 7) = 1
        THEN Dispatch(m, m, "usart", "rx", INT_328P_USART_RX)
        ELSE UpdateAdc(m, ie)

(* SPI stage. *)
UpdateSpi(m, ie) ==
    IF ie /\ SpiPending(m.spi)
    THEN Dispatch(m, [m EXCEPT !.spi = SpiCheckInterrupt(@)], "spi", "spi", INT_SPI)
    ELSE UpdateUsart(m, ie)

(* Each timer stage is `timer.update(...)` followed, when I is set, by the  *)
(* timer's check_interrupt; m1 is the machine after the update, bound once *)
(* so that the stages after it work on its value.                          *)

(* Timer2 stage (ATmega328P). *)
Timer2Updated(m, tick) ==
    LET u == Timer8Update(m.timer2, Timer8Addrs(TRUE), tick, m.data)
    IN  IF Is32u4 THEN m ELSE [m EXCEPT !.timer2 = u.t, !.data = u.data]

Timer2Stage(m1, ie) ==
    IF ~Is32u4 /\ ie /\ Timer8Pick(m1.timer2) # "none"
    THEN Dispatch(m1, [m1 EXCEPT !.timer2 = Timer8CheckInterrupt(@)],
                  "timer2", Timer8Pick(m1.timer2), Timer2Vector(Timer8Pick(m1.timer2)))
    ELSE UpdateSpi(m1, ie)

UpdateTimer2(m, ie, tick) ==
    CHOOSE r \in { Timer2Stage(m1, ie) : m1 \in {Timer2Updated(m, tick)} } : TRUE

(* Timer4 stage (ATmega32u4). *)
Timer4Updated(m, tick) ==
    IF Is32u4 THEN [m EXCEPT !.timer4 = Timer4Update(@, tick)] ELSE m

Timer4Stage(m1, ie, tick) ==
    IF Is32u4 /\ ie /\ Timer4Pick(m1.timer4) # "none"
    THEN Dispatch(m1, [m1 EXCEPT !.timer4 = Timer4CheckInterrupt(@)],
                  "timer4", Timer4Pick(m1.timer4), Timer4Vector(Timer4Pick(m1.timer4)))
    ELSE UpdateTimer2(m1, ie, tick)

UpdateTimer4(m, ie, tick) ==
    CHOOSE r \in { Timer4Stage(m1, ie, tick) : m1 \in {Timer4Updated(m, tick)} } : TRUE

(* Timer3 stage (ATmega32u4). *)
Timer3Updated(m, tick) ==
    LET u == Timer16Update(m.timer3, Timer16Addrs(3), tick, m.data)
    IN  IF Is32u4 THEN [m EXCEPT !.timer3 = u.t, !.data = u.data] ELSE m

Timer3Stage(m1, ie, tick) ==
    IF Is32u4 /\ ie /\ Timer16Pick(m1.timer3) # "none"
    THEN Dispatch(m1, [m1 EXCEPT !.timer3 = Timer16CheckInterrupt(@)],
                  "timer3", Timer16Pick(m1.timer3), Timer3Vector(Timer16Pick(m1.timer3)))
    ELSE UpdateTimer4(m1, ie, tick)

UpdateTimer3(m, ie, tick) ==
    CHOOSE r \in { Timer3Stage(m1, ie, tick) : m1 \in {Timer3Updated(m, tick)} } : TRUE

(* Timer1 stage. *)
Timer1Updated(m, tick) ==
    LET u == Timer16Update(m.timer1, Timer16Addrs(1), tick, m.data)
    IN  [m EXCEPT !.timer1 = u.t, !.data = u.data]

Timer1Stage(m1, ie, tick) ==
    IF ie /\ Timer16Pick(m1.timer1) # "none"
    THEN Dispatch(m1, [m1 EXCEPT !.timer1 = Timer16CheckInterrupt(@)],
                  "timer1", Timer16Pick(m1.timer1), Timer1Vector(Timer16Pick(m1.timer1)))
    ELSE UpdateTimer3(m1, ie, tick)

UpdateTimer1(m, ie, tick) ==
    CHOOSE r \in { Timer1Stage(m1, ie, tick) : m1 \in {Timer1Updated(m, tick)} } : TRUE

(* Timer0 stage, the first after the flush. *)
Timer0Updated(m, tick) ==
    LET u == Timer8Update(m.timer0, Timer8Addrs(FALSE), tick, m.data)
    IN  [m EXCEPT !.timer0 = u.t, !.data = u.data]

Timer0Stage(m1, ie, tick) ==
    IF ie /\ Timer8Pick(m1.timer0) # "none"
    THEN Dispatch(m1, [m1 EXCEPT !.timer0 = Timer8CheckInterrupt(@)],
                  "timer0", Timer8Pick(m1.timer0), Timer0Vector(Timer8Pick(m1.timer0)))
    ELSE UpdateTimer1(m1, ie, tick)

UpdateTimer0(m, ie, tick) ==
    CHOOSE r \in { Timer0Stage(m1, ie, tick) : m1 \in {Timer0Updated(m, tick)} } : TRUE

update_peripherals(m0) ==
    UpdateTimer0(flush_spi([m0 EXCEPT !.hist.irq = NoIrq]),
                 Bit(m0.cpu.sreg, SREG_I) = 1, m0.cpu.tick)

----------------------------------------------------------------------------
(* Initial state: Arduboy::new_with_cpu *)

NoFrame == [live |-> FALSE, pc |-> 0, sp |-> 0]

NoReturn == [done |-> FALSE, pc |-> 0, sp |-> 0]

NoPush == [sp |-> -1, v |-> 0]

(* A chain of CP followed by CPCs: its length so far and whether every     *)
(* byte pair it compared was equal.                                        *)
NoCompare == [len |-> 0, alleq |-> TRUE]

HistNew ==
    [ op |-> "new",                     \* the last host operation
      mn |-> "none",                    \* mnemonic of the last executed instruction
      exec |-> [pc |-> 0, sp |-> 0, sreg |-> 0],  \* CPU right after execute_inst
      irq |-> NoIrq,                    \* the dispatch of the last peripheral update
      prev_irq |-> -1,                  \* vector dispatched by the step before, or -1
      frame |-> NoFrame,                \* the innermost interrupt frame on the stack
      ret |-> NoReturn,                 \* set when RETI has just left that frame
      wrote_spdr |-> FALSE,             \* the last instruction wrote SPDR
      prev_wrote_spdr |-> FALSE,        \* the instruction before it wrote SPDR
      spsr_read |-> -1,                 \* SPSR value the last instruction read, or -1
      issued |-> << >>,                 \* the bytes written to SPDR, in program order
      saved |-> << >>,                  \* the peripherals when save_snapshot was called
      load |-> "none",                  \* outcome of the last load_hex: "ok" or "err"
      jedec |-> -1,                     \* transfers since command 0x9F was taken, or -1
      push |-> NoPush,                  \* SP before and value of the PUSH just executed
      prev_push |-> NoPush,             \* the same for the instruction before the last
      eecr |-> -1,                      \* value the last instruction wrote to EECR, or -1
      cmp |-> NoCompare,                \* the CP/CPC chain the last instruction ended
      start |-> 0,                      \* cpu.tick when the last run_frame was entered
      ring |-> << >>,                   \* the snapshots the rewind buffer should hold
      pushes |-> 0,                     \* the pushes made on the rewind buffer
      popped |-> -1,                    \* result of the pop just made: 0 is None
      resume |-> "none",
      fx |-> [cmd |-> 0, abytes |-> << >>, k |-> 0, b |-> 0] ]
                                        \* the read, program or erase command the FX engine
                                        \* took last, its address bytes, the transfers since
                                        \* the address was complete, and the last byte sent               \* "cleared": a break return was just acknowledged;
                                        \* "resumed": run_frame was called right after that

CpuNew(sp) == [pc |-> 0, sp |-> sp, sreg |-> 0, tick |-> 0, sleeping |-> FALSE]

(* The pin latches as new and reset leave them: every button released. *)
PinsNew == [b |-> 255, c |-> 255, d |-> 255, e |-> 255, f |-> 255]

Buttons == {"Up", "Down", "Left", "Right", "A", "B"}

(* The frontend makes its RewindBuffer after the machine; until then there *)
(* is none.  A slot of buf holds a snapshot, named by a positive number,   *)
(* or 0 for None.                                                          *)
NoRewind == [made |-> FALSE, buf |-> << >>, write_pos |-> 0, count |-> 0]

Init(types) ==
    /\ cpu_type \in types
    /\ cpu = CpuNew(DataSize - 1)
    /\ data = Put(Put(EmptyMap, SPH_ADDR, (DataSize - 1) \div 256),
                  SPL_ADDR, (DataSize - 1) % 256)
    /\ timer0 = Timer8New
    /\ timer1 = Timer16New
    /\ timer3 = Timer16New
    /\ timer4 = Timer4New
    /\ timer2 = Timer8New
    /\ spi = SpiNew
    /\ adc = AdcNew
    /\ fx_flash = FxFlashNew
    /\ fx_cs_prev = TRUE
    /\ spdr_in = 0
    /\ spi_out = << >>
    /\ display_type = IF Is32u4 THEN "Unknown" ELSE "Pcd8544"
    /\ pcd_pins = IF Is32u4 THEN [cs |-> 255, dc |-> 255] ELSE [cs |-> 1, dc |-> 2]
    /\ audio = AudioNew
    /\ dbg = [spdr_writes |-> 0, fx_transfers |-> 0, fx_cs_count |-> 0]
    /\ disp_rx = << >>
    /\ snap = << >>
    /\ ctl = [mode |-> "idle", last_update |-> 0, end_tick |-> 0]
    /\ panicked = FALSE
    /\ flash = EmptyMap
    /\ eeprom = EmptyMap
    /\ breakpoints = {}
    /\ breakpoint_hit = FALSE
    /\ debugger = DebuggerNew
    /\ pins = PinsNew
    /\ buttons = [b \in Buttons |-> "none"]
    /\ rewind = NoRewind
    /\ hist = HistNew

----------------------------------------------------------------------------
(* lib.rs: Arduboy::step, step_one and the loop of run_frame *)

(* A faulty step that charges every instruction one cycle. *)
charge_one(r) == [r.m EXCEPT !.cpu.tick = @ + 1]

(* step: execute one instruction and charge its cycles. *)
charge(r) == [r.m EXCEPT !.cpu.tick = @ + r.cycles]

(* The history after an instruction: it notes the CPU as the instruction   *)
(* left it, and follows the interrupt frame.  m is the machine before the  *)
(* instruction, m1 the machine after it.                                   *)
note_step(m, inst, m1) ==
    LET f == m.hist.frame
        leaves == f.live /\ inst.op = "Reti" /\ m.cpu.sp = f.sp - 2
        reads_spsr == inst.op \in {"In", "Lds"} /\ inst.b = SPSR_ADDR
        wrote == m1.dbg.spdr_writes # m.dbg.spdr_writes
    IN  [m1 EXCEPT !.hist =
            [@ EXCEPT !.mn = inst.op,
                      !.exec = [pc |-> m1.cpu.pc, sp |-> m1.cpu.sp, sreg |-> m1.cpu.sreg],
                      !.prev_irq = m.hist.irq.vec,
                      !.frame = IF leaves THEN NoFrame
                                ELSE [f EXCEPT !.live = @ /\ m1.cpu.sp <= f.sp - 2],
                      !.ret = IF leaves THEN [done |-> TRUE, pc |-> f.pc, sp |-> f.sp]
                              ELSE NoReturn,
                      !.wrote_spdr = wrote,
                      !.prev_wrote_spdr = m.hist.wrote_spdr,
                      !.push = IF inst.op = "Push"
                               THEN [sp |-> m.cpu.sp, v |-> Get(m.data, inst.a)]
                               ELSE NoPush,
                      !.prev_push = m.hist.push,
                      !.cmp = CASE inst.op = "Cp" ->
                                     [len |-> 1,
                                      alleq |-> Get(m.data, inst.a) = Get(m.data, inst.b)]
                                [] inst.op = "Cpc" /\ m.hist.cmp.len >= 1 ->
                                     [len |-> m.hist.cmp.len + 1,
                                      alleq |-> m.hist.cmp.alleq
                                                /\ Get(m.data, inst.a) = Get(m.data, inst.b)]
                                [] OTHER -> NoCompare,
                      !.eecr = IF inst.op \in {"Out", "Sts"} /\ inst.a = EECR_ADDR
                               THEN Get(m.data, inst.b) ELSE -1,
                      !.spsr_read = IF reads_spsr THEN Get(m1.data, inst.a) ELSE -1,
                      !.issued = IF wrote THEN Append(@, Get(m.data, inst.b)) ELSE @]]

step(m, inst) ==
    CHOOSE r \in { note_step(m, inst, m1) : m1 \in {charge(execute_inst(m, inst))} } : TRUE

(* The interrupt frame a peripheral update may open; m1 is the machine     *)
(* after update_peripherals.                                               *)
note_entry(m1) ==
    IF m1.hist.irq.vec # -1 /\ ~m1.panicked
    THEN [m1 EXCEPT !.hist.frame = [live |-> TRUE, pc |-> m1.hist.irq.pc,
                                    sp |-> m1.hist.irq.sp]]
    ELSE m1

update_and_note(m) == note_entry(update_peripherals(m))

(* step_one: one instruction, then flush_spi and update_peripherals. *)
step_one(m, inst) ==
    update_and_note(flush_spi([step(m, inst) EXCEPT !.hist.op = "step_one"]))

(* run_frame, the tail of one loop iteration: the peripheral update, due    *)
(* once 128 cycles have passed since the last one.                         *)
frame_update(m, last_update) ==
    IF m.cpu.tick - last_update >= 128
    THEN [m |-> update_and_note(flush_spi(m)), last_update |-> m.cpu.tick]
    ELSE [m |-> [m EXCEPT !.hist.irq = NoIrq], last_update |-> last_update]

----------------------------------------------------------------------------
(* Actions.  program is the alphabet the guest's next instruction is drawn  *)
(* from.                                                                   *)

Running(limit) == ~panicked /\ cpu.tick < limit

(* The instructions of the alphabet the exploration still admits: at most  *)
(* MaxIssued bytes are written to SPDR in a run.                           *)
Admitted(program) ==
    {i \in program :
        (i.op \in {"Out", "Sts"} /\ i.a = SPDR_ADDR) => dbg.spdr_writes < MaxIssued}

(* The host calls step_one (debugger single step). *)
StepOne(program, limit) ==
    /\ ctl.mode = "idle"
    /\ Running(limit)
    /\ \E inst \in Admitted(program) :
         \E m2 \in {step_one(M, inst)} : Commit(m2)
    /\ UNCHANGED << host, cpu_type, snap, ctl >>

(* The host calls run_frame: the frame starts. *)
RunFrameBegin(limit) ==
    /\ ctl.mode = "idle"
    /\ Running(limit)
    /\ ctl' = [mode |-> "frame", last_update |-> cpu.tick,
               end_tick |-> cpu.tick + FrameCycles]
    /\ hist' = [hist EXCEPT !.op = "run_frame", !.start = cpu.tick,
                             !.resume = IF hist.op = "take_hit" /\ hist.resume = "cleared"
                                        THEN "resumed" ELSE "none"]
    /\ audio' = [audio EXCEPT !.left.edges = << >>]
    /\ UNCHANGED << host, eeprom, debugger, breakpoint_hit, cpu_type, cpu, data, timer0, timer1, timer3, timer4, timer2, spi, adc,
                    fx_flash, fx_cs_prev, spdr_in, spi_out, display_type, pcd_pins, dbg,
                    disp_rx, snap, panicked >>

(* One iteration of run_frame's loop with the CPU awake. *)
FrameIter(program, limit) ==
    /\ ctl.mode = "frame"
    /\ Running(limit)
    /\ ~cpu.sleeping
    /\ \E inst \in Admitted(program) :
         \E r \in {frame_update([step(M, inst) EXCEPT !.hist.op = "frame_step"],
                                ctl.last_update)} :
            /\ Commit(r.m)
            /\ ctl' = [ctl EXCEPT !.last_update = r.last_update]
    /\ UNCHANGED << host, cpu_type, snap >>

(* A sleeping branch that lets no time pass. *)
nap_stalled(m) == [m EXCEPT !.hist.op = "frame_sleep"]

(* The sleeping branch of run_frame's loop: four idle cycles. *)
nap(m) ==
    [m EXCEPT !.cpu.tick = @ + 4, !.hist.op = "frame_sleep",
              !.hist.mn = "none", !.hist.ret = NoReturn,
              !.hist.prev_irq = m.hist.irq.vec,
              !.hist.wrote_spdr = FALSE,
              !.hist.prev_wrote_spdr = m.hist.wrote_spdr,
              !.hist.push = NoPush, !.hist.prev_push = NoPush,
              !.hist.eecr = -1, !.hist.cmp = NoCompare,
              !.hist.spsr_read = -1]

(* One iteration of run_frame's loop with the CPU asleep: four idle cycles. *)
FrameSleep(limit) ==
    /\ ctl.mode = "frame"
    /\ Running(limit)
    /\ cpu.sleeping
    /\ \E r \in {frame_update(nap(M), ctl.last_update)} :
            /\ Commit(r.m)
            /\ ctl' = [ctl EXCEPT !.last_update = r.last_update]
    /\ UNCHANGED << host, cpu_type, snap >>

(* run_frame returns early with breakpoint_hit set.  The action itself     *)
(* takes the host to have a breakpoint on the current PC; FrameStop below  *)
(* adds the guard of the code over the breakpoint list and the watchpoint  *)
(* flag.                                                                   *)
FrameBreak ==
    /\ ctl.mode = "frame"
    /\ ~panicked
    /\ ~cpu.sleeping
    /\ ctl' = [ctl EXCEPT !.mode = "idle", !.end_tick = 0]
    /\ breakpoint_hit' = TRUE
    /\ hist' = [hist EXCEPT !.op = "breakpoint"]
    /\ UNCHANGED << host, eeprom, debugger, cpu_type, cpu, data, timer0, timer1, timer3, timer4, timer2, spi, adc,
                    fx_flash, fx_cs_prev, spdr_in, spi_out, display_type, pcd_pins, audio, dbg,
                    disp_rx, snap, panicked >>

(* The peripheral state of a machine: timers, SPI, ADC and the FX flash    *)
(* engine.                                                                 *)
Peripherals(m) ==
    << m.timer0, m.timer1, m.timer3, m.timer4, m.timer2, m.spi, m.adc,
       m.fx_flash.state, m.fx_flash.write_enabled >>

(* Arduboy::save_snapshot: the host keeps one snapshot. *)
SaveSnapshot ==
    /\ ctl.mode = "idle"
    /\ ~panicked
    /\ snap' = << [pc |-> cpu.pc, sp |-> cpu.sp, sreg |-> cpu.sreg, tick |-> cpu.tick,
                   sleeping |-> cpu.sleeping, data |-> data, eeprom |-> eeprom] >>
    /\ snap' # snap
    /\ hist' = [hist EXCEPT !.op = "save_snapshot", !.saved = Peripherals(M)]
    /\ UNCHANGED << host, eeprom, debugger, breakpoint_hit, cpu_type, cpu, data, timer0, timer1, timer3, timer4, timer2, spi, adc,
                    fx_flash, fx_cs_prev, spdr_in, spi_out, display_type, pcd_pins, audio, dbg,
                    disp_rx, ctl, panicked >>

(* Arduboy::restore_snapshot: CPU fields, the data array and the EEPROM are *)
(* rewritten in place; the peripherals' own fields are left as they are.   *)
RestoreSnapshot ==
    /\ ctl.mode = "idle"
    /\ ~panicked
    /\ snap # << >>
    /\ cpu' = [pc |-> snap[1].pc, sp |-> snap[1].sp, sreg |-> snap[1].sreg,
               tick |-> snap[1].tick, sleeping |-> snap[1].sleeping]
    /\ data' = snap[1].data
    /\ eeprom' = snap[1].eeprom
    /\ hist' = [hist EXCEPT !.op = "restore_snapshot", !.frame = NoFrame, !.ret = NoReturn]
    /\ UNCHANGED << host, debugger, breakpoint_hit, cpu_type, timer0, timer1, timer3,
                    timer4, timer2, spi, adc,
                    fx_flash, fx_cs_prev, spdr_in, spi_out, display_type, pcd_pins, audio, dbg,
                    disp_rx, snap, ctl, panicked >>

(* Arduboy::load_fx_data: the host attaches an FX flash image. *)
FxImage == [x \in {0} |-> 18]

LoadFxData ==
    /\ ctl.mode = "idle"
    /\ ~panicked
    /\ ~fx_flash.loaded
    /\ fx_flash' = FxLoadData(fx_flash, FxImage)
    /\ hist' = [hist EXCEPT !.op = "load_fx_data"]
    /\ UNCHANGED << host, eeprom, debugger, breakpoint_hit, cpu_type, cpu, data, timer0, timer1, timer3, timer4, timer2, spi, adc,
                    fx_cs_prev, spdr_in, spi_out, display_type, pcd_pins, audio, dbg,
                    disp_rx, snap, ctl, panicked >>

----------------------------------------------------------------------------
(* Specification of the CPU core under single-stepping and frames: the     *)
(* guest moves the stack pointer, pushes, pops, calls and sets flags.      *)

CpuProgram ==
    { Inst("Nop", 0, 0), Inst("Ldi", 16, 95), Inst("Out", SPL_ADDR, 16),
      Inst("Out", SPH_ADDR, 17), Inst("Push", 16, 0), Inst("Pop", 17, 0),
      Inst("Sts", SREG_ADDR, 16), Inst("Sec", 0, 0), Inst("Add", 16, 16),
      Inst("Rcall", 1, 0), Inst("Ret", 0, 0), Inst("Sleep", 0, 0) }

InitCpu == Init({"Atmega32u4", "Atmega328p"})

NextCpu ==
    \/ StepOne(CpuProgram, MaxTickCpu)
    \/ RunFrameBegin(MaxTickCpu)
    \/ FrameIter(CpuProgram, MaxTickCpu)
    \/ FrameSleep(MaxTickCpu)
    \/ FrameBreak

SpecCpu == InitCpu /\ [][NextCpu]_vars

----------------------------------------------------------------------------
(* Specification of the rewind feature: the host single-steps, runs frames, *)
(* and saves and restores a snapshot.                                      *)

RewindProgram == { Inst("Nop", 0, 0), Inst("Ldi", 16, 95), Inst("Push", 16, 0),
                   Inst("Sleep", 0, 0) }

NextRewind ==
    \/ StepOne(RewindProgram, MaxTickRewind)
    \/ RunFrameBegin(MaxTickRewind)
    \/ FrameIter(RewindProgram, MaxTickRewind)
    \/ FrameSleep(MaxSleepTick)
    \/ FrameBreak
    \/ SaveSnapshot
    \/ RestoreSnapshot

SpecRewind == InitCpu /\ [][NextRewind]_vars

----------------------------------------------------------------------------
(* Specification of the timer interrupts: the guest programs Timer/Counter0 *)
(* and Timer/Counter1 (compare value 2, compare-A interrupt, clk/1, CTC on  *)
(* Timer1), enables interrupts and returns from handlers.                  *)

IrqProgram ==
    { Inst("Ldi", 16, 9), Inst("Ldi", 17, 2),
      Inst("Sts", 71, 17),     \* OCR0A
      Inst("Sts", 110, 17),    \* TIMSK0
      Inst("Sts", 69, 16),     \* TCCR0B
      Inst("Sts", 136, 17),    \* OCR1AL
      Inst("Sts", 111, 17),    \* TIMSK1
      Inst("Sts", 129, 16),    \* TCCR1B
      Inst("Sei", 0, 0), Inst("Reti", 0, 0) }

InitIrq == Init({"Atmega32u4", "Atmega328p"})

NextIrq == StepOne(IrqProgram, MaxTickIrq)

SpecIrq == InitIrq /\ [][NextIrq]_vars

----------------------------------------------------------------------------
(* Specification of the SPI port with the FX flash and the display: the    *)
(* host may attach an FX image; the guest drives the flash chip-select     *)
(* (PD1) through DDRD, PORTD and PIND and writes bytes to SPDR; frames let *)
(* several bytes collect in the SPI buffer before a flush.                 *)

SpiProgram ==
    { Inst("Ldi", 16, 2), Inst("Ldi", 18, 159),
      Inst("Out", DDRD_ADDR, 16), Inst("Out", PORTD_ADDR, 16), Inst("Out", PORTD_ADDR, 17),
      Inst("Out", PIND_ADDR, 16), Inst("Out", SPDR_ADDR, 18), Inst("Out", SPDR_ADDR, 16) }

NextSpi ==
    \/ LoadFxData
    \/ StepOne(SpiProgram, MaxTickSpi)
    \/ RunFrameBegin(MaxTickSpi)
    \/ FrameIter(SpiProgram, MaxTickSpi)
    \/ FrameBreak

SpecSpi == InitCpu /\ [][NextSpi]_vars

----------------------------------------------------------------------------
(* Specification of SPI status polling: the guest sets up SPCR with or      *)
(* without the SPI interrupt, enables interrupts, writes SPDR and reads    *)
(* SPSR.                                                                   *)

PollProgram ==
    { Inst("Ldi", 19, 192), Inst("Out", SPCR_ADDR, 19),
      Inst("Sei", 0, 0), Inst("Out", SPDR_ADDR, 16), Inst("In", 20, SPSR_ADDR),
      Inst("Reti", 0, 0) }

NextPoll == StepOne(PollProgram, MaxTickPoll)

SpecPoll == InitCpu /\ [][NextPoll]_vars

----------------------------------------------------------------------------
(* Specification of accesses outside the data array: the guest moves the   *)
(* stack pointer above the array (SPH = 0xFF), pushes, stores to and loads *)
(* from an address above the array, and enables the SPI interrupt so that  *)
(* an interrupt is entered with that stack pointer.                        *)

OobProgram ==
    { Inst("Ldi", 17, 255), Inst("Out", SPH_ADDR, 17), Inst("Push", 17, 0),
      Inst("Sts", 65520, 17), Inst("Lds", 18, 65520),
      Inst("Ldi", 19, 192), Inst("Out", SPCR_ADDR, 19),
      Inst("Sei", 0, 0), Inst("Out", SPDR_ADDR, 16) }

NextOob == StepOne(OobProgram, MaxTickOob)

SpecOob == InitCpu /\ [][NextOob]_vars

----------------------------------------------------------------------------
(* Properties *)

(* An instruction was executed by the step. *)
Executed(h) == h.op \in {"step_one", "frame_step"}

(* C1: across any sequence of emulator operations cpu.tick never decreases, *)
(* and every executed instruction increases it by at least one cycle.      *)
C1_TickMonotonic ==
    [][/\ cpu'.tick >= cpu.tick
       /\ (Executed(hist') /\ ~panicked') => cpu'.tick >= cpu.tick + 1]_vars

(* C2: after any operation that modifies SREG or SP (flag-setting           *)
(* instructions, guest writes to 0x5D-0x5F by OUT/ST/PUSH, PUSH/POP/CALL/  *)
(* RET, interrupt entry, RETI) cpu.sreg and cpu.sp equal their I/O mirrors *)
(* SREG (0x5F), SPL (0x5D) and SPH (0x5E).                                 *)
C2_MirrorsCoherent ==
    ~panicked =>
        /\ cpu.sreg = Get(data, SREG_ADDR)
        /\ cpu.sp = 256 * Get(data, SPH_ADDR) + Get(data, SPL_ADDR)

(* An interrupt was entered by the last peripheral update. *)
Entered == hist.irq.vec # -1 /\ ~panicked

(* C3: an interrupt is dispatched for a source only if, at the moment of    *)
(* dispatch, the source's enable bit is set, its pending flag or count is  *)
(* non-zero and the I flag is set; right after the entry the I flag is     *)
(* clear.                                                                  *)
C3_DispatchGuard ==
    hist.irq.vec # -1 =>
        /\ hist.irq.enabled
        /\ hist.irq.pre > 0
        /\ hist.irq.ie
        /\ ~panicked => (Bit(cpu.sreg, SREG_I) = 0 /\ Bit(Get(data, SREG_ADDR), SREG_I) = 0)

C3_Witness == Entered /\ hist.irq.unit = "timer1"

(* C4: the address pushed at interrupt entry is the address of the          *)
(* instruction that would have executed next, and a RETI executed by the   *)
(* handler resumes at that address with SP as before the dispatch and the  *)
(* I flag set.                                                             *)
C4_ReturnAddress ==
    /\ Entered =>
          /\ 256 * Get(data, hist.irq.sp) + Get(data, hist.irq.sp - 1) = hist.exec.pc
          /\ cpu.sp = hist.irq.sp - 2
    /\ hist.ret.done =>
          /\ hist.exec.pc = hist.ret.pc
          /\ hist.exec.sp = hist.ret.sp
          /\ Bit(hist.exec.sreg, SREG_I) = 1

C4_Witness == hist.ret.done /\ hist.ret.pc > 0

(* C9: when several timer interrupts are pending and enabled at the same    *)
(* interrupt check, the one delivered has the lowest vector (the highest   *)
(* priority) of them.                                                      *)
C9_VectorPriority ==
    (Entered /\ hist.irq.vec \in hist.irq.ready) =>
        \A v \in hist.irq.ready : hist.irq.vec <= v

(* C10: each delivery of a timer interrupt decrements the pending count of  *)
(* its source by exactly one.                                              *)
C10_CountDecrement ==
    (Entered /\ hist.irq.unit \in {"timer0", "timer1", "timer2", "timer3", "timer4"}) =>
        hist.irq.post = hist.irq.pre - 1

(* The flash chip-select pin is driven low: an FX image is attached, PD1   *)
(* is an output and its PORTD bit is 0.                                    *)
CsAssertedLow ==
    /\ fx_flash.loaded
    /\ Bit(Get(data, DDRD_ADDR), 1) = 1
    /\ Bit(Get(data, PORTD_ADDR), 1) = 0

(* The flash chip-select pin is driven high. *)
CsDrivenHigh ==
    /\ fx_flash.loaded
    /\ Bit(Get(data, DDRD_ADDR), 1) = 1
    /\ Bit(Get(data, PORTD_ADDR), 1) = 1

(* C5: on each SPDR write the byte is fed to the FX flash engine if and     *)
(* only if the flash chip-select pin is asserted low at that moment; a     *)
(* byte written while chip-select is high leaves the engine untouched.     *)
C5_FedIffSelected ==
    [][dbg'.spdr_writes = dbg.spdr_writes + 1 =>
          /\ (dbg'.fx_transfers = dbg.fx_transfers + 1) <=> CsAssertedLow
          /\ CsAssertedLow =>
                fx_flash' = FxTransfer(fx_flash, hist'.issued[Len(hist'.issued)]).f
          /\ ~CsAssertedLow => fx_flash' = fx_flash]_vars

C5_Witness ==
    /\ hist.wrote_spdr
    /\ dbg.fx_transfers >= 1
    /\ dbg.spdr_writes > dbg.fx_transfers
    /\ fx_flash.state.st = "JedecId"

(* C6: from any flash-engine state, a low-to-high transition of the flash   *)
(* chip-select pin by a PORTD write or a PIND toggle puts the engine in    *)
(* Idle.                                                                   *)
C6_RisingEdgeIdle ==
    [][(CsAssertedLow /\ CsDrivenHigh' /\ Executed(hist') /\ hist'.mn = "Out")
          => fx_flash'.state = FxIdle]_vars

(* C7: the bytes delivered to the display controller appear in the order    *)
(* in which the program wrote them to SPDR, none reordered or duplicated,  *)
(* however the writes are split across flushes of the SPI buffer.          *)
C7_DisplayOrder ==
    \A i \in 1..Len(disp_rx) :
        /\ disp_rx[i].n < Len(hist.issued)
        /\ disp_rx[i].byte = hist.issued[disp_rx[i].n + 1]
        /\ i > 1 => disp_rx[i - 1].n < disp_rx[i].n

C7_Witness ==
    /\ Len(disp_rx) >= 3
    /\ disp_rx[1].batch < disp_rx[2].batch
    /\ disp_rx[2].batch = disp_rx[3].batch
    /\ disp_rx[2].byte # disp_rx[3].byte

(* C8, as stated: after a guest write to SPDR with SPI enabled, a read of   *)
(* SPSR by the very next instruction observes SPIF = 1.                    *)
C8_SpifOnNextRead ==
    (hist.prev_wrote_spdr /\ hist.spsr_read # -1 /\ spi.spe) =>
        Bit(hist.spsr_read, 7) = 1

(* C8, amended: ... observes SPIF = 1 unless the SPI interrupt (SPIE and I  *)
(* set) was entered in between, which clears SPIF.                         *)
C8_SpifUnlessInterrupt ==
    (hist.prev_wrote_spdr /\ hist.spsr_read # -1 /\ spi.spe /\ hist.prev_irq # INT_SPI) =>
        Bit(hist.spsr_read, 7) = 1

C8_Witness ==
    /\ hist.prev_wrote_spdr
    /\ spi.spe
    /\ hist.prev_irq # INT_SPI
    /\ hist.spsr_read >= 128

(* C11: for any data-space address outside the data array reached by a    *)
(* guest-controlled path (LD/ST, PUSH/POP, CALL/RET, interrupt entry, with *)
(* any SP), a read yields 0 and a write is ignored, and no such access     *)
(* panics: the run never ends in a panic and no byte is ever stored        *)
(* outside the array.                                                      *)
C11_OutOfBoundsClamped ==
    /\ ~panicked
    /\ \A a \in DOMAIN data : a < DataSize
    /\ (hist.mn = "Lds" /\ Get(data, 17) = 255) => Get(data, 18) = 0

----------------------------------------------------------------------------
(* hex.rs: the Intel HEX parser.  A text is a sequence of lines, a line a   *)
(* sequence of characters.                                                 *)

HexUpper == << "0", "1", "2", "3", "4", "5", "6", "7",
               "8", "9", "A", "B", "C", "D", "E", "F" >>

HexLower == << "0", "1", "2", "3", "4", "5", "6", "7",
               "8", "9", "a", "b", "c", "d", "e", "f" >>

(* hex_char: the value of a hexadecimal digit, or -1 for Err. *)
hex_char(c) ==
    IF \E i \in 1..16 : HexUpper[i] = c
    THEN (CHOOSE i \in 1..16 : HexUpper[i] = c) - 1
    ELSE IF \E i \in 1..16 : HexLower[i] = c
         THEN (CHOOSE i \in 1..16 : HexLower[i] = c) - 1
         ELSE -1

(* hex_line_to_bytes: pairs of digits to bytes; Err on an odd number of     *)
(* characters or on a character that is no digit.                          *)
hex_line_to_bytes(chars) ==
    IF Len(chars) % 2 # 0 \/ \E i \in 1..Len(chars) : hex_char(chars[i]) = -1
    THEN [ok |-> FALSE, bytes |-> << >>]
    ELSE [ok |-> TRUE,
          bytes |-> [k \in 1..(Len(chars) \div 2) |->
                        hex_char(chars[2 * k - 1]) * 16 + hex_char(chars[2 * k])]]

(* str::trim on a line whose only whitespace is the blank. *)
trim(line) ==
    LET keep == {i \in 1..Len(line) : line[i] # " "}
    IN  IF keep = {} THEN << >>
        ELSE SubSeq(line, CHOOSE i \in keep : \A j \in keep : i <= j,
                          CHOOSE i \in keep : \A j \in keep : j <= i)

RECURSIVE SumBytes(_)
SumBytes(bytes) == IF bytes = << >> THEN 0 ELSE (Head(bytes) + SumBytes(Tail(bytes))) % 256

(* The data record (type 00): byte i of the record goes to flash[full_addr  *)
(* + i] when that is inside the flash; bytes[4 + i] is indexed without a   *)
(* check against the length of the line, so a record whose byte count      *)
(* exceeds its data panics at the first missing byte, with the bytes       *)
(* before it already stored.  p is the parser's state.                     *)
DataRecord(p, bytes, full_addr) ==
    LET byte_count == bytes[1]
        inside == {i \in 0..(byte_count - 1) : full_addr + i < FLASH_SIZE}
        missing == {i \in inside : 4 + i >= Len(bytes)}
        stop == IF missing = {} THEN byte_count
                ELSE CHOOSE i \in missing : \A j \in missing : i <= j
        stored == {i \in inside : i < stop}
        value(a) == IF a - full_addr \in stored THEN bytes[5 + a - full_addr]
                    ELSE p.flash[a]
        top == IF stored = {} THEN 0
               ELSE full_addr + 1 + CHOOSE i \in stored : \A j \in stored : j <= i
    IN  [p EXCEPT !.flash = [a \in {x \in DOMAIN p.flash \cup {full_addr + i : i \in stored} :
                                      value(x) # 0} |-> value(a)],
                  !.max_addr = IF top > @ THEN top ELSE @,
                  !.result = IF missing = {} THEN "run" ELSE "panic"]

(* The extended address records (types 02 and 04): bytes[5] is indexed      *)
(* without a check against the length of the line.                         *)
AddressRecord(p, bytes, shift) ==
    IF bytes[1] < 2 THEN p
    ELSE IF Len(bytes) < 6 THEN [p EXCEPT !.result = "panic"]
    ELSE [p EXCEPT !.base_addr = (bytes[5] * 256 + bytes[6]) * shift]

(* One line of parse_hex's loop after hex_line_to_bytes; r is its result. *)
ParseRecord(p, r) ==
    IF ~r.ok \/ Len(r.bytes) < 5 \/ SumBytes(r.bytes) # 0
    THEN [p EXCEPT !.result = "err"]
    ELSE CASE r.bytes[4] = 0 ->
                DataRecord(p, r.bytes, p.base_addr + r.bytes[2] * 256 + r.bytes[3])
           [] r.bytes[4] = 1 -> [p EXCEPT !.result = "break"]
           [] r.bytes[4] = 2 -> AddressRecord(p, r.bytes, 16)
           [] r.bytes[4] = 4 -> AddressRecord(p, r.bytes, 65536)
           [] OTHER -> p

ParseLine(p, line) ==
    IF line = << >> \/ line[1] # ":" THEN p
    ELSE ParseRecord(p, hex_line_to_bytes(Tail(line)))

RECURSIVE ParseFrom(_, _, _)
ParseFrom(p, lines, i) ==
    IF i > Len(lines) \/ p.result # "run" THEN p
    ELSE ParseFrom(ParseLine(p, trim(lines[i])), lines, i + 1)

(* parse_hex: the flash is written in place, line by line; result is "ok",  *)
(* "err" or "panic".                                                       *)
parse_hex(hex, f) ==
    LET p == ParseFrom([flash |-> f, max_addr |-> 0, base_addr |-> 0, result |-> "run"],
                       hex, 1)
    IN  [p EXCEPT !.result = IF @ \in {"run", "break"} THEN "ok" ELSE @]

(* Arduboy::reset: CPU and peripherals back to power-on state. *)
reset(m) ==
    [m EXCEPT !.cpu = CpuNew(DataSize - 1),
              !.data = LET d == Put(Put(EmptyMap, SPH_ADDR, (DataSize - 1) \div 256),
                                    SPL_ADDR, (DataSize - 1) % 256)
                       IN  IF Is32u4 THEN d ELSE Put(d, 192, 32),
              !.display_type = IF Is32u4 THEN "Unknown" ELSE "Pcd8544",
              !.timer0 = Timer8New, !.timer1 = Timer16New, !.timer3 = Timer16New,
              !.timer4 = Timer4New, !.timer2 = Timer8New,
              !.spi = SpiNew, !.adc = AdcNew,
              !.spi_out = << >>, !.spdr_in = 0, !.fx_cs_prev = TRUE,
              !.pcd_pins = IF Is32u4 THEN [cs |-> 255, dc |-> 255] ELSE [cs |-> 1, dc |-> 2],
              !.dbg.fx_transfers = 0, !.dbg.fx_cs_count = 0,
              !.audio.speaker_prev_pc6 = FALSE,
              !.breakpoint_hit = FALSE,
              !.hist.frame = NoFrame, !.hist.ret = NoReturn, !.hist.irq = NoIrq]

(* Arduboy::load_hex: parse into the flash, then reset when the parse       *)
(* succeeded.  texts is the set of texts the host may hand in.             *)
LoadHex(texts) ==
    /\ ctl.mode = "idle"
    /\ ~panicked
    /\ \E hex \in texts :
         \E p \in {parse_hex(hex, flash)} :
            /\ flash' = p.flash
            /\ pins' = IF p.result = "ok" THEN PinsNew ELSE pins
            /\ \E m2 \in {[(IF p.result = "ok" THEN reset(M) ELSE M)
                              EXCEPT !.panicked = (p.result = "panic"),
                                     !.hist.op = "load_hex",
                                     !.hist.load = p.result]} : Commit(m2)
    /\ UNCHANGED << breakpoints, buttons, rewind, cpu_type, snap, ctl >>

(* The texts of the exploration: records written out in upper-case digits  *)
(* with a correct checksum, and a few damaged lines.                       *)
HexLine(bytes) ==
    [k \in 1..(2 * Len(bytes) + 1) |->
        IF k = 1 THEN ":"
        ELSE IF k % 2 = 0 THEN HexUpper[(bytes[k \div 2] \div 16) + 1]
             ELSE HexUpper[(bytes[k \div 2] % 16) + 1]]

WithChecksum(body) == Append(body, (256 - SumBytes(body)) % 256)

HexBodies ==
    { << count, 0, addr, type >> \o payload :
        count \in {2, 3}, addr \in {0}, type \in {0, 1, 2},
        payload \in { << >>, << 12, 148 >> } }

HexLines ==
    { HexLine(WithChecksum(b)) : b \in HexBodies }
    \cup { HexLine(<< 2, 0, 0, 0, 12, 148, 255 >>),          \* wrong checksum
           HexLine(WithChecksum(<< 2, 0, 0, 4, 0, 1 >>)),     \* extended linear address
           HexLine(WithChecksum(<< 1, 0, 2, 0, 148 >>)),      \* one byte at address 2
           HexLine(<< 0, 0, 1 >>),                            \* too short
           << ":", "0", "0", "0" >>,                          \* odd number of digits
           << ":", "0", "0", "0", "0", "0", "g", "0", "0", "0", "0" >>,
           << " ", ":", "0", "0", "0", "0", "0", "0", "0", "1", "f", "f", " " >>,
           << "#", " ", "x" >>,
           << >> }

MaxLines == 2

HexTexts == UNION { [1..n -> HexLines] : n \in 1..MaxLines }

HexProgram == { Inst("Ldi", 16, 95), Inst("Push", 16, 0) }

MaxTickHex == 2

NextHex ==
    \/ LoadHex(HexTexts)
    \/ StepOne(HexProgram, MaxTickHex)

SpecHex == InitCpu /\ [][NextHex]_vars

(* C12: when load_hex returns an error, the flash and all other emulator   *)
(* state are what they were before the call.                               *)
C12_FailedLoadUntouched ==
    [][ (hist'.op = "load_hex" /\ hist'.load = "err") =>
            /\ flash' = flash
            /\ UNCHANGED << cpu_type, cpu, data, timer0, timer1, timer3, timer4, timer2,
                            spi, adc, fx_flash, fx_cs_prev, spdr_in, spi_out,
                            display_type, pcd_pins, audio, dbg, snap, panicked, eeprom,
                            breakpoints, breakpoint_hit, debugger, pins >> ]_vars

(* C13: for every input text, parse_hex returns Ok or Err and does not      *)
(* panic: no load ends in a panic.                                         *)
C13_ParseNeverPanics == hist.op = "load_hex" => hist.load \in {"ok", "err"}

----------------------------------------------------------------------------
(* The FX flash engine driven byte by byte, as the bus drives it while the  *)
(* flash chip-select is asserted: spdr_in = fx_flash.transfer(mosi).       *)

(* byte_idx is a u8 and `byte_idx + 1` a plain addition: at 255 it          *)
(* overflows, which panics in a build with overflow checks and wraps to 0  *)
(* in a build without them.                                                *)
FxIndexOverflows(f) == f.state.st \in {"JedecId", "ReleasePD"} /\ f.state.n = 255

MaxTransfers == 260

(* The command in progress, noted from the bytes sent: a byte sent to the  *)
(* idle engine is a command byte.                                          *)
NoFx == [cmd |-> 0, abytes |-> << >>, k |-> 0, b |-> 0]

FxNote(fx, idle, mosi) ==
    IF idle
    THEN (IF mosi \in {2, 3, 11, 32}
          THEN [cmd |-> mosi, abytes |-> << >>, k |-> 0, b |-> mosi] ELSE NoFx)
    ELSE IF fx.cmd = 0 THEN NoFx
    ELSE IF Len(fx.abytes) < 3 THEN [fx EXCEPT !.abytes = Append(@, mosi), !.b = mosi]
    ELSE [fx EXCEPT !.k = @ + 1, !.b = mosi]

FxAddress(abytes) == abytes[1] * 65536 + abytes[2] * 256 + abytes[3]

FxSelectedTransfer(mosis) ==
    /\ ctl.mode = "idle"
    /\ ~panicked
    /\ dbg.fx_transfers < MaxTransfers
    /\ \E mosi \in mosis :
         \E r \in {FxTransfer(fx_flash, mosi)} :
            /\ \/ /\ fx_flash' = r.f
                  /\ spdr_in' = r.miso
                  /\ panicked' = FALSE
               \/ /\ FxIndexOverflows(fx_flash)
                  /\ panicked' = TRUE
                  /\ UNCHANGED << fx_flash, spdr_in >>
            /\ dbg' = [dbg EXCEPT !.fx_transfers = @ + 1]
            /\ hist' = [hist EXCEPT !.op = "fx_transfer",
                                    !.jedec = IF fx_flash.state.st = "JedecId" THEN @ + 1
                                              ELSE IF fx_flash.state = FxIdle /\ mosi = 159
                                                   THEN 0 ELSE -1,
                                    !.fx = FxNote(@, fx_flash.state.st = "Idle", mosi)]
    /\ UNCHANGED << host, eeprom, debugger, breakpoint_hit, cpu_type, cpu, data, timer0, timer1, timer3, timer4, timer2,
                    spi, adc, fx_cs_prev, spi_out, display_type, pcd_pins, audio, disp_rx,
                    snap, ctl >>

(* The chip-select is released: FxFlash::deselect. *)
FxDeselected ==
    /\ ctl.mode = "idle"
    /\ ~panicked
    /\ fx_flash.state # FxIdle
    /\ fx_flash' = FxDeselect(fx_flash)
    /\ hist' = [hist EXCEPT !.op = "fx_deselect", !.jedec = -1, !.fx = NoFx]
    /\ UNCHANGED << host, eeprom, debugger, breakpoint_hit, cpu_type, cpu, data, timer0, timer1, timer3, timer4, timer2,
                    spi, adc, fx_cs_prev, spdr_in, spi_out, display_type, pcd_pins, audio, dbg,
                    disp_rx, snap, ctl, panicked >>

NextFx ==
    \/ FxSelectedTransfer({159, 0})
    \/ FxDeselected

SpecFx == InitCpu /\ [][NextFx]_vars

(* C14: after command 0x9F is taken with the chip-select asserted (reply    *)
(* 0xFF), the next three transfers return 0xEF, 0x40, 0x18 and every       *)
(* further transfer until deselect returns 0x00, however many follow.      *)
C14_JedecReply ==
    (hist.op = "fx_transfer" /\ hist.jedec >= 0) =>
        /\ ~panicked
        /\ spdr_in = CASE hist.jedec = 0 -> 255
                       [] hist.jedec = 1 -> 239
                       [] hist.jedec = 2 -> 64
                       [] hist.jedec = 3 -> 24
                       [] OTHER -> 0

----------------------------------------------------------------------------
(* Specification of the stack under a guest that moves SP anywhere in the   *)
(* 16-bit range before a PUSH/POP pair (interrupts stay disabled).         *)

PushProgram ==
    { Inst("Ldi", 17, 0), Inst("Ldi", 17, 93), Inst("Ldi", 17, 94),
      Inst("Out", SPH_ADDR, 17), Inst("Out", SPL_ADDR, 17),
      Inst("Ldi", 16, 171), Inst("Push", 16, 0), Inst("Pop", 18, 0) }

MaxTickPush == 9

NextPush == StepOne(PushProgram, MaxTickPush)

SpecPush == InitCpu /\ [][NextPush]_vars

----------------------------------------------------------------------------
(* Specification of the EEPROM: the guest runs the EEPROM control sequence  *)
(* while the host takes and restores snapshots (rewind).                   *)

EepromProgram ==
    { Inst("Ldi", 16, 2), Inst("Ldi", 16, 4), Inst("Ldi", 16, 7),
      Inst("Out", EEDR_ADDR, 16), Inst("Out", 65, 16), Inst("Out", 66, 16),
      Inst("Out", EECR_ADDR, 16), Inst("In", 18, EEDR_ADDR) }

MaxTickEeprom == 5

NextEeprom ==
    \/ StepOne(EepromProgram, MaxTickEeprom)
    \/ SaveSnapshot
    \/ RestoreSnapshot

SpecEeprom == InitCpu /\ [][NextEeprom]_vars

(* The step is a guest write of EECR with EEPE set that stores EEDR at      *)
(* EEAR.                                                                   *)
EepromProgrammed ==
    /\ hist'.op = "step_one"
    /\ hist'.eecr # -1
    /\ Bit(hist'.eecr, 1) = 1
    /\ Eear(M) < EEPROM_SIZE
    /\ eeprom' = FxPutByte(eeprom, Eear(M), Get(data, EEDR_ADDR))

(* C16, as stated: the EEPROM contents change only as the result of a      *)
(* guest write to EECR with EEPE set, which stores EEDR at address EEAR;   *)
(* no other operation of the emulator modifies the EEPROM.                 *)
C16_EepromOnlyByGuest == [][eeprom' # eeprom => EepromProgrammed]_vars

(* C16, amended: the EEPROM contents change only by such a guest write or   *)
(* by restore_snapshot, which copies the snapshot's EEPROM image back.     *)
C16_EepromGuestOrRestore ==
    [][eeprom' # eeprom =>
          \/ EepromProgrammed
          \/ hist'.op = "restore_snapshot" /\ eeprom' = snap[1].eeprom]_vars

C16_Witness ==
    /\ hist.op = "step_one"
    /\ hist.eecr = 2
    /\ Get(data, EEDR_ADDR) = 7
    /\ Eear(M) = 2
    /\ FxByte([data |-> eeprom], 2) = 7

----------------------------------------------------------------------------
(* Specification of multi-byte comparison: the guest loads two values and   *)
(* compares them with CP on the low bytes and CPC on the higher ones.      *)

CompareProgram ==
    { Inst("Ldi", 20, 1), Inst("Ldi", 21, 1), Inst("Ldi", 22, 1), Inst("Ldi", 22, 255),
      Inst("Ldi", 23, 1), Inst("Cp", 20, 22), Inst("Cpc", 21, 23), Inst("Cpc", 20, 23) }

MaxTickCompare == 7

NextCompare == StepOne(CompareProgram, MaxTickCompare)

SpecCompare == InitCpu /\ [][NextCompare]_vars

(* C17: after CP on the low bytes followed by CPC on each higher byte pair, *)
(* the Z flag is set if and only if every byte pair compared equal.        *)
C17_ChainZero ==
    hist.cmp.len >= 1 => (Bit(cpu.sreg, 1) = 1 <=> hist.cmp.alleq)

C17_Witness ==
    /\ hist.cmp.len = 2
    /\ hist.cmp.alleq
    /\ Get(data, 20) = 1
    /\ Bit(cpu.sreg, 1) = 1

----------------------------------------------------------------------------
(* lib.rs: run_frame with its exits, and the debugger's host calls.        *)

(* The PC run_frame continues from: wrapped to 0 beyond the flash. *)
FramePc(m) == IF m.cpu.pc * 2 >= FLASH_SIZE THEN 0 ELSE m.cpu.pc

(* The checks at the head of a loop iteration with the CPU awake. *)
BreakDueNoWatch(m) == breakpoints # {} /\ FramePc(m) \in breakpoints

BreakDue(m) ==
    \/ breakpoints # {} /\ FramePc(m) \in breakpoints
    \/ m.debugger.watch_hit.some

(* One iteration with the CPU awake and no break due: one instruction. *)
FrameStep(program, limit) ==
    /\ ~BreakDue(M)
    /\ cpu.tick < ctl.end_tick
    /\ FrameIter(program, limit)

(* One iteration with the CPU asleep. *)
FrameNap(limit) ==
    /\ cpu.tick < ctl.end_tick
    /\ FrameSleep(limit)

(* A break is due: run_frame returns with breakpoint_hit set. *)
FrameStop ==
    /\ BreakDue(M)
    /\ cpu.tick < ctl.end_tick
    /\ FrameBreak

(* The host adds a breakpoint (Arduboy.breakpoints is a public list). *)
AddBreakpoint(pcs) ==
    /\ ctl.mode = "idle"
    /\ ~panicked
    /\ \E pc \in pcs \ breakpoints : breakpoints' = breakpoints \cup {pc}
    /\ hist' = [hist EXCEPT !.op = "add_breakpoint"]
    /\ UNCHANGED << flash, pins, buttons, rewind, eeprom, debugger, breakpoint_hit, cpu_type, cpu,
                    data, timer0,
                    timer1, timer3, timer4, timer2, spi, adc, fx_flash, fx_cs_prev,
                    spdr_in, spi_out, display_type, pcd_pins, audio, dbg, disp_rx, snap, ctl,
                    panicked >>

(* Debugger::add_watchpoint *)
AddWatchpoint(wps) ==
    /\ ctl.mode = "idle"
    /\ ~panicked
    /\ \E wp \in wps \ debugger.watchpoints :
         debugger' = [debugger EXCEPT !.watchpoints = @ \cup {wp}]
    /\ hist' = [hist EXCEPT !.op = "add_watchpoint"]
    /\ UNCHANGED << host, eeprom, breakpoint_hit, cpu_type, cpu, data, timer0,
                    timer1, timer3, timer4, timer2, spi, adc, fx_flash, fx_cs_prev,
                    spdr_in, spi_out, display_type, pcd_pins, audio, dbg, disp_rx, snap, ctl,
                    panicked >>

(* The host acknowledges a stop: it clears breakpoint_hit and takes the    *)
(* pending watchpoint hit (Debugger::take_hit).                            *)
TakeHit ==
    /\ ctl.mode = "idle"
    /\ ~panicked
    /\ breakpoint_hit \/ debugger.watch_hit.some
    /\ breakpoint_hit' = FALSE
    /\ debugger' = [debugger EXCEPT !.watch_hit = NoHit]
    /\ hist' = [hist EXCEPT !.op = "take_hit",
                             !.resume = IF hist.op = "breakpoint" THEN "cleared" ELSE "none"]
    /\ UNCHANGED << host, eeprom, cpu_type, cpu, data, timer0,
                    timer1, timer3, timer4, timer2, spi, adc, fx_flash, fx_cs_prev,
                    spdr_in, spi_out, display_type, pcd_pins, audio, dbg, disp_rx, snap, ctl,
                    panicked >>

----------------------------------------------------------------------------
(* run_frame over a program in flash.  The instruction is fetched at the    *)
(* PC; the decoder is modelled for the opcodes the programs below use.     *)

(* Memory::read_program_word *)
read_program_word(f, word_addr) ==
    IF word_addr * 2 + 1 < FLASH_SIZE
    THEN Get(f, word_addr * 2) + 256 * Get(f, word_addr * 2 + 1)
    ELSE 0

(* opcodes::decode for NOP (0x0000), SLEEP (0x9588), SEI (0x9478), JMP     *)
(* (0x940C k), LDI (1110 KKKK dddd KKKK) and OUT (1011 1AAr rrrr AAAA).    *)
decode(word, next_word) ==
    CASE word = 0 -> Inst("Nop", 0, 0)
      [] word = 38280 -> Inst("Sleep", 0, 0)
      [] word = 38008 -> Inst("Sei", 0, 0)
      [] word = 37900 -> Inst("Jmp", next_word, 0)
      [] word \div 4096 = 14 ->
            Inst("Ldi", ((word \div 16) % 16) + 16,
                 (((word \div 16) % 256) \div 16) * 16 + (word % 16))
      [] word \div 4096 = 11 /\ (word \div 2048) % 2 = 1 ->
            Inst("Out", (((word \div 512) % 4) * 16 + (word % 16)) + 32,
                 (word \div 16) % 32)
      [] OTHER -> Unrepresentable

(* Arduboy::step: fetch at the PC, decode, execute. *)
fetch(f, pc) ==
    decode(read_program_word(f, pc),
           IF pc + 1 < FLASH_SIZE \div 2 THEN read_program_word(f, pc + 1) ELSE 0)

(* The awake branch of one iteration: PC wrapped into the flash, the       *)
(* instruction there fetched and executed.  The operands are bound once,   *)
(* so that step works on their values.                                     *)
frame_step(m, f) ==
    CHOOSE r \in { [step(m0, inst) EXCEPT !.hist.op = "frame_step"] :
                     m0 \in {[m EXCEPT !.cpu.pc = FramePc(m)]},
                     inst \in {fetch(f, FramePc(m))} } : TRUE

(* The loop of run_frame from the head of an iteration up to the next      *)
(* peripheral update or to the exit of the loop, whichever comes first,    *)
(* and for at most n iterations.  c is the frame's control record, f the   *)
(* flash.  The result names how the run was left: "update", "break",       *)
(* "end", or "more" after n iterations.  FrameRunOn is the tail of an      *)
(* iteration, m1 the machine after its instruction or its idle cycles.     *)
RECURSIVE FrameRun(_, _, _, _)
FrameRunOn(m1, c, f, n) ==
    IF m1.cpu.tick - c.last_update >= 128
    THEN CHOOSE r \in { [m |-> note_entry(m3),
                          ctl |-> [c EXCEPT !.last_update = m1.cpu.tick],
                          left |-> "update"] :
                        m3 \in { update_peripherals(m2) : m2 \in {flush_spi(m1)} } } : TRUE
    ELSE FrameRun([m1 EXCEPT !.hist.irq = NoIrq], c, f, n - 1)

FrameRun(m, c, f, n) ==
    IF m.cpu.tick >= c.end_tick THEN [m |-> m, ctl |-> c, left |-> "end"]
    ELSE IF ~m.cpu.sleeping /\ BreakDue(m)
         THEN [m |-> [m EXCEPT !.cpu.pc = FramePc(m)], ctl |-> c, left |-> "break"]
    ELSE IF n = 0 THEN [m |-> m, ctl |-> c, left |-> "more"]
    ELSE CHOOSE r \in { FrameRunOn(m1, c1, f1, n1) :
                        m1 \in { IF m.cpu.sleeping THEN nap(m) ELSE frame_step(m, f) },
                        c1 \in {c}, f1 \in {f}, n1 \in {n} } : TRUE

(* The iterations one FrameAdvance runs at most. *)
MaxBatch == 16

(* The tail of run_frame after the loop: update_peripherals, flush_spi. *)
(* FrameLeft is the machine a run of the loop leaves behind.               *)
frame_end(m) == flush_spi(update_and_note([m EXCEPT !.hist.op = "frame_end"]))

FrameLeft(r) ==
    CASE r.left \in {"update", "more"} -> r.m
      [] r.left = "break" -> [r.m EXCEPT !.breakpoint_hit = TRUE, !.hist.op = "breakpoint"]
      [] r.left = "end" -> frame_end(r.m)

(* run_frame advances by MaxBatch iterations, or to its next peripheral    *)
(* update, or returns.                                                     *)
FrameAdvance ==
    /\ ctl.mode = "frame"
    /\ ~panicked
    /\ \E r \in {FrameRun(M, ctl, flash, MaxBatch)} :
         /\ \E m2 \in {FrameLeft(r)} : Commit(m2)
         /\ ctl' = IF r.left \in {"update", "more"} THEN r.ctl
                   ELSE [mode |-> "idle", last_update |-> 0, end_tick |-> 0]
    /\ UNCHANGED << host, cpu_type, snap >>

----------------------------------------------------------------------------
(* Specification of whole frames: the flash holds a program that sleeps     *)
(* with interrupts disabled, one that spins in a jump, or no program at    *)
(* all (NOPs), and the frame runs its 216000 cycles unless a breakpoint    *)
(* stops it.                                                               *)

FrameTexts ==
    { << HexLine(WithChecksum(<< 2, 0, 0, 0, 136, 149 >>)) >>,          \* 0: sleep
      << HexLine(WithChecksum(<< 4, 0, 2, 0, 12, 148, 1, 0 >>)) >> }   \* 1: jmp 1

MaxFrameStart == 1

NextFrame ==
    \/ LoadHex(FrameTexts)
    \/ AddBreakpoint({2})
    \/ RunFrameBegin(MaxFrameStart)
    \/ FrameAdvance

SpecFrame == Init({"Atmega32u4"}) /\ [][NextFrame]_vars

(* run_frame is a loop on the thread that called it: once entered, it is   *)
(* run until it has returned.                                              *)
SpecFrameLive == SpecFrame /\ WF_vars(FrameAdvance)

(* C18: every call of run_frame terminates, whatever the guest does (SLEEP  *)
(* with interrupts disabled included), and when no breakpoint or           *)
(* watchpoint hit occurs it returns only once the tick counter has reached *)
(* start + 216000.                                                         *)
C18_FrameTerminates ==
    /\ (ctl.mode = "frame") ~> (ctl.mode = "idle")
    /\ [][(ctl.mode = "frame" /\ ctl'.mode = "idle" /\ hist'.op # "breakpoint")
             => cpu'.tick >= hist.start + 216000]_vars

C18_Witness ==
    /\ hist.op = "frame_end"
    /\ ctl.mode = "idle"
    /\ cpu.sleeping
    /\ Bit(cpu.sreg, SREG_I) = 0
    /\ cpu.tick >= hist.start + 216000

----------------------------------------------------------------------------
(* Specification of breakpoints and watchpoints: the host sets breakpoints *)
(* and watchpoints, single-steps and runs frames; the guest stores to and  *)
(* loads from a watched address.  The frame is followed one loop iteration *)
(* at a time.                                                              *)

BreakProgram ==
    { Inst("Nop", 0, 0), Inst("Sts", 256, 16), Inst("Lds", 17, 256) }

BreakWatchpoints == { [addr |-> 256, kind |-> "Write"], [addr |-> 256, kind |-> "Read"] }

MaxTickBreak == 5

NextBreak ==
    \/ AddBreakpoint({0, 2})
    \/ AddWatchpoint(BreakWatchpoints)
    \/ TakeHit
    \/ StepOne(BreakProgram, MaxTickBreak)
    \/ RunFrameBegin(MaxTickBreak)
    \/ FrameStep(BreakProgram, MaxTickBreak)
    \/ FrameStop

SpecBreak == Init({"Atmega32u4"}) /\ [][NextBreak]_vars

(* C19: during run_frame no instruction at a breakpoint address is         *)
(* executed and none is executed while a watchpoint hit is pending; when   *)
(* the loop comes to an instruction with either one due, run_frame returns *)
(* with breakpoint_hit set.                                                *)
C19_BreakBeforeInstruction ==
    /\ [][(ctl.mode = "frame" /\ hist'.op = "frame_step")
             => (FramePc(M) \notin breakpoints /\ ~debugger.watch_hit.some)]_vars
    /\ [][(/\ ctl.mode = "frame" /\ ~cpu.sleeping /\ cpu.tick < ctl.end_tick
           /\ (FramePc(M) \in breakpoints \/ debugger.watch_hit.some))
             => (ctl'.mode = "idle" /\ breakpoint_hit' /\ cpu' = cpu)]_vars

C19_Witness ==
    /\ hist.op = "breakpoint"
    /\ ctl.mode = "idle"
    /\ breakpoint_hit
    /\ debugger.watch_hit.some
    /\ debugger.watch_hit.access = "Write"
    /\ cpu.pc \notin breakpoints

----------------------------------------------------------------------------
(* lib.rs: Arduboy::set_button *)

(* The pin and bit of a button in the three mappings of set_button. *)
ArduboyPin(btn) ==
    CASE btn = "Up" -> [pin |-> "f", bit |-> 7]
      [] btn = "Down" -> [pin |-> "f", bit |-> 4]
      [] btn = "Left" -> [pin |-> "f", bit |-> 5]
      [] btn = "Right" -> [pin |-> "f", bit |-> 6]
      [] btn = "A" -> [pin |-> "e", bit |-> 6]
      [] btn = "B" -> [pin |-> "b", bit |-> 4]

GamebuinoPin(btn) ==
    CASE btn = "Up" -> [pin |-> "b", bit |-> 5]
      [] btn = "Down" -> [pin |-> "d", bit |-> 7]
      [] btn = "Left" -> [pin |-> "b", bit |-> 4]
      [] btn = "Right" -> [pin |-> "e", bit |-> 6]
      [] btn = "A" -> [pin |-> "d", bit |-> 4]
      [] btn = "B" -> [pin |-> "d", bit |-> 1]

ClassicPin(btn) ==
    CASE btn = "Up" -> [pin |-> "b", bit |-> 1]
      [] btn = "Down" -> [pin |-> "d", bit |-> 6]
      [] btn = "Left" -> [pin |-> "b", bit |-> 0]
      [] btn = "Right" -> [pin |-> "d", bit |-> 7]
      [] btn = "A" -> [pin |-> "d", bit |-> 4]
      [] btn = "B" -> [pin |-> "d", bit |-> 2]

(* Active-low: pressed clears the bit, released sets it. *)
set_pin(p, at, pressed) ==
    [p EXCEPT ![at.pin] = IF pressed THEN ClrBit(@, at.bit) ELSE SetBit(@, at.bit)]

set_button(p, type, display, btn, pressed) ==
    IF type = "Atmega32u4"
    THEN LET p1 == IF display # "Pcd8544" THEN set_pin(p, ArduboyPin(btn), pressed) ELSE p
         IN  IF display # "Ssd1306" THEN set_pin(p1, GamebuinoPin(btn), pressed) ELSE p1
    ELSE set_pin(p, ClassicPin(btn), pressed)

(* The host reports a button pressed or released. *)
SetButton(btns) ==
    /\ ctl.mode = "idle"
    /\ ~panicked
    /\ \E btn \in btns, pressed \in BOOLEAN :
         /\ pins' = set_button(pins, cpu_type, display_type, btn, pressed)
         /\ buttons' = [buttons EXCEPT ![btn] = IF pressed THEN "press" ELSE "release"]
    /\ hist' = [hist EXCEPT !.op = "set_button"]
    /\ UNCHANGED << flash, breakpoints, rewind, eeprom, debugger, breakpoint_hit, cpu_type,
                    cpu, data, timer0, timer1, timer3, timer4, timer2, spi, adc, fx_flash,
                    fx_cs_prev, spdr_in, spi_out, display_type, pcd_pins, audio, dbg, disp_rx,
                    snap, ctl, panicked >>

----------------------------------------------------------------------------
(* Specification of the buttons: the host presses and releases the six     *)
(* buttons in any order, on either CPU, before the guest has shown which    *)
(* display it drives.                                                      *)

NextButton == SetButton(Buttons)

SpecButton == Init({"Atmega32u4", "Atmega328p"}) /\ [][NextButton]_vars

(* The pin bit that represents a button: the column of the mapping table   *)
(* for the CPU and the display.                                            *)
MappedPin(btn) ==
    IF cpu_type = "Atmega32u4"
    THEN IF display_type = "Pcd8544" THEN GamebuinoPin(btn) ELSE ArduboyPin(btn)
    ELSE ClassicPin(btn)

PinBit(p, at) == Bit(p[at.pin], at.bit)

(* C20: after any sequence of set_button calls each button's mapped pin    *)
(* bit is 0 if and only if the last call for that button was a press, and  *)
(* a call for one button leaves the pin bit of every other button as it    *)
(* was.                                                                    *)
C20_ButtonBits ==
    /\ [](\A btn \in Buttons :
            buttons[btn] # "none"
              => (PinBit(pins, MappedPin(btn)) = 0 <=> buttons[btn] = "press"))
    /\ [][\A btn \in Buttons :
            (hist'.op = "set_button" /\ buttons'[btn] = buttons[btn]
               /\ \E other \in Buttons \ {btn} : buttons'[other] # buttons[other])
              => PinBit(pins', MappedPin(btn)) = PinBit(pins, MappedPin(btn))]_vars

----------------------------------------------------------------------------
(* snapshot.rs: RewindBuffer.  A snapshot is named by a positive number;   *)
(* what it holds does not matter to the ring.                              *)

(* RewindBuffer::new *)
RewindNew(capacity) ==
    [made |-> TRUE, buf |-> [i \in 1..capacity |-> 0], write_pos |-> 0, count |-> 0]

(* A push that counts every snapshot, retained or not. *)
push_uncapped(rb, s) ==
    [rb EXCEPT !.buf[rb.write_pos + 1] = s,
               !.write_pos = (rb.write_pos + 1) % Len(rb.buf),
               !.count = @ + 1]

(* RewindBuffer::push *)
push(rb, s) ==
    [rb EXCEPT !.buf[rb.write_pos + 1] = s,
               !.write_pos = (rb.write_pos + 1) % Len(rb.buf),
               !.count = IF @ < Len(rb.buf) THEN @ + 1 ELSE @]

(* RewindBuffer::pop: the buffer after it and what it returns (0 is None). *)
pop(rb) ==
    IF rb.count = 0 THEN [rb |-> rb, ret |-> 0]
    ELSE LET pos == IF rb.write_pos = 0 THEN Len(rb.buf) - 1 ELSE rb.write_pos - 1
         IN  [rb |-> [rb EXCEPT !.write_pos = pos, !.count = @ - 1, !.buf[pos + 1] = 0],
              ret |-> rb.buf[pos + 1]]

(* RewindBuffer::clear *)
clear(rb) ==
    [rb EXCEPT !.buf = [i \in 1..Len(rb.buf) |-> 0], !.write_pos = 0, !.count = 0]

(* The rest of the machine, which no call on the rewind buffer touches. *)
RewindOnly ==
    UNCHANGED << flash, breakpoints, pins, buttons, eeprom, debugger, breakpoint_hit,
                 cpu_type, cpu, data, timer0, timer1, timer3, timer4, timer2, spi, adc,
                 fx_flash, fx_cs_prev, spdr_in, spi_out, display_type, pcd_pins, audio, dbg,
                 disp_rx, snap, ctl, panicked >>

(* The host makes its rewind buffer. *)
RewindMake(capacities) ==
    /\ ~rewind.made
    /\ \E n \in capacities : rewind' = RewindNew(n)
    /\ hist' = [hist EXCEPT !.op = "rewind_new", !.popped = -1]
    /\ RewindOnly

(* The snapshots an unbounded stack would hold, cut to the newest n. *)
Newest(seq, n) ==
    IF Len(seq) <= n THEN seq ELSE SubSeq(seq, Len(seq) - n + 1, Len(seq))

(* The host pushes a snapshot: the limit-th push is the last explored. *)
RewindPush(limit) ==
    /\ rewind.made
    /\ hist.pushes < limit
    /\ rewind' = push(rewind, hist.pushes + 1)
    /\ hist' = [hist EXCEPT !.op = "rewind_push", !.popped = -1,
                            !.pushes = @ + 1,
                            !.ring = Newest(Append(@, hist.pushes + 1), Len(rewind.buf))]
    /\ RewindOnly

(* The host pops a snapshot. *)
RewindPop ==
    /\ rewind.made
    /\ \E r \in {pop(rewind)} :
         /\ rewind' = r.rb
         /\ hist' = [hist EXCEPT !.op = "rewind_pop", !.popped = r.ret,
                                 !.ring = IF @ = << >> THEN @ ELSE SubSeq(@, 1, Len(@) - 1)]
    /\ RewindOnly

(* The host clears the buffer (a new game is loaded). *)
RewindClear ==
    /\ rewind.made
    /\ rewind.count > 0
    /\ rewind' = clear(rewind)
    /\ hist' = [hist EXCEPT !.op = "rewind_clear", !.popped = -1, !.ring = << >>]
    /\ RewindOnly

----------------------------------------------------------------------------
(* Specification of the rewind buffer: a buffer of capacity 1 to           *)
(* MaxCapacity, then pushes, pops and clears in any order.                 *)

MaxCapacity == 3

MaxPushes == 6

NextRing ==
    \/ RewindMake(1..MaxCapacity)
    \/ RewindPush(MaxPushes)
    \/ RewindPop
    \/ RewindClear

SpecRing == Init({"Atmega32u4"}) /\ [][NextRing]_vars

(* The snapshots the buffer holds, oldest first: the count slots before    *)
(* write_pos.                                                              *)
RingContents(rb) ==
    [k \in 1..rb.count |->
        rb.buf[((rb.write_pos - rb.count + k - 1 + 2 * Len(rb.buf)) % Len(rb.buf)) + 1]]

(* C21: the buffer holds the newest pushes not yet popped, at most N of    *)
(* them; pop returns the most recent of them, and None when there is none. *)
C21_RingIsBoundedStack ==
    /\ [](rewind.made => /\ rewind.count <= Len(rewind.buf)
                         /\ RingContents(rewind) = hist.ring)
    /\ [][hist'.op = "rewind_pop"
            => hist'.popped = (IF hist.ring = << >> THEN 0
                               ELSE hist.ring[Len(hist.ring)])]_vars

C21_Witness ==
    /\ hist.op = "rewind_pop"
    /\ Len(rewind.buf) = 2
    /\ hist.pushes = 3
    /\ hist.popped = 2
    /\ rewind.count = 0

----------------------------------------------------------------------------
(* Specification of interrupt entry between instructions: the guest        *)
(* enables the SPI interrupt, sets I and writes SPDR, stepped by the host  *)
(* one instruction at a time (step_one) or run in frames (run_frame).      *)

MaxTickEntry == 6

NextEntry ==
    \/ StepOne(PollProgram, MaxTickEntry)
    \/ RunFrameBegin(MaxTickEntry)
    \/ FrameIter(PollProgram, MaxTickEntry)

SpecEntry == Init({"Atmega32u4", "Atmega328p"}) /\ [][NextEntry]_vars

(* Some peripheral has an interrupt pending and enabled, as the            *)
(* check_interrupt calls of update_peripherals would find it.              *)
EnabledPending(m) ==
    \/ Timer8Pick(m.timer0) # "none"
    \/ Timer16Pick(m.timer1) # "none"
    \/ Is32u4 /\ Timer16Pick(m.timer3) # "none"
    \/ Is32u4 /\ Timer4Pick(m.timer4) # "none"
    \/ ~Is32u4 /\ Timer8Pick(m.timer2) # "none"
    \/ SpiPending(m.spi)
    \/ AdcPending(m.adc)

(* C22: after every executed instruction, if I is set and a peripheral has *)
(* an enabled interrupt pending, the interrupt is entered before the next  *)
(* instruction executes: no instruction starts with I set and such an      *)
(* interrupt pending.                                                      *)
C22_EntryBeforeNextInstruction ==
    [][(hist'.op \in {"step_one", "frame_step"} /\ hist.op \in {"step_one", "frame_step"})
          => ~(Bit(cpu.sreg, SREG_I) = 1 /\ EnabledPending(M))]_vars


----------------------------------------------------------------------------
(* Specification of waking from SLEEP: the flash holds a program that      *)
(* enables the SPI interrupt, starts a transfer and sleeps, once with the  *)
(* global interrupt flag set before (SEI) and once with it clear.  The     *)
(* handler at the SPI vector sleeps for the rest of the frame.             *)

WakeTexts ==
    { << HexLine(WithChecksum(<< 10, 0, 0, 0,
            48, 236, 60, 189, 120, 148, 14, 189, 136, 149 >>)),      \* ldi, out SPCR, sei, out SPDR, sleep
         HexLine(WithChecksum(<< 2, 0, 96, 0, 136, 149 >>)) >>,        \* at the SPI vector: sleep
      << HexLine(WithChecksum(<< 8, 0, 0, 0,
            48, 236, 60, 189, 14, 189, 136, 149 >>)) >> }             \* the same without sei

(* The host loads one image and runs it. *)
NextWake ==
    \/ hist.load = "none" /\ LoadHex(WakeTexts)
    \/ RunFrameBegin(MaxFrameStart)
    \/ FrameAdvance

SpecWake == Init({"Atmega32u4"}) /\ [][NextWake]_vars

(* run_frame, once entered, is run until it has returned. *)
SpecWakeLive == SpecWake /\ WF_vars(FrameAdvance)

----------------------------------------------------------------------------
(* C24: a run_frame called right after the host has acknowledged a break   *)
(* return (breakpoint_hit cleared, the watchpoint hit taken) executes at   *)
(* least one instruction before it returns on a break again.               *)
C24_ResumeMakesProgress ==
    [][(ctl.mode = "frame" /\ hist.resume = "resumed" /\ ~cpu.sleeping
          /\ ctl'.mode = "idle" /\ hist'.op = "breakpoint")
         => cpu'.tick > hist.start]_vars


----------------------------------------------------------------------------
(* Specification of the timers in CTC mode: the guest sets OCR0A and       *)
(* OCR1A to 8, selects CTC (WGM01 in TCCR0A, WGM12 in TCCR1B) and starts   *)
(* the clocks with prescaler 1; no compare interrupt is enabled.           *)

CtcProgram ==
    { Inst("Ldi", 16, 9), Inst("Ldi", 17, 2), Inst("Ldi", 18, 1), Inst("Ldi", 19, 8),
      Inst("Sts", 71, 19),     \* OCR0A
      Inst("Sts", 68, 17),     \* TCCR0A: WGM01
      Inst("Sts", 69, 18),     \* TCCR0B: CS00
      Inst("Sts", 136, 19),    \* OCR1AL
      Inst("Sts", 129, 16),    \* TCCR1B: WGM12, CS10
      Inst("Nop", 0, 0) }

MaxTickCtc == 12

NextCtc == StepOne(CtcProgram, MaxTickCtc)

SpecCtc == Init({"Atmega32u4"}) /\ [][NextCtc]_vars

(* C25: in CTC mode with OCR_A set, a counter that is at most OCR_A stays  *)
(* at most OCR_A while it counts, on the 8-bit timer 0 and on the 16-bit   *)
(* timer 1 alike.                                                          *)
C25_CtcCounterBounded ==
    /\ [][(/\ timer0.mode = 2 /\ timer0.ocr0a > 0 /\ timer0.tcnt_shadow <= timer0.ocr0a
           /\ timer0'.mode = 2 /\ timer0'.ocr0a = timer0.ocr0a)
             => timer0'.tcnt_shadow <= timer0'.ocr0a]_vars
    /\ [][(/\ timer1.ctc /\ timer1.ocr_a > 0 /\ timer1.tcnt <= timer1.ocr_a
           /\ timer1'.ctc /\ timer1'.ocr_a = timer1.ocr_a)
             => timer1'.tcnt <= timer1'.ocr_a]_vars


(* C26: a timer whose prescaler selects "stopped" does not count and       *)
(* raises no event, and a timer started by an instruction has counted at   *)
(* most the cycles of that instruction right after it: the cycles that     *)
(* passed while it was stopped are not counted when it is started.         *)
C26_StoppedCyclesNotCounted ==
    /\ [][(timer0.prescale = 0 /\ timer0'.prescale = 0)
             => (/\ timer0'.tcnt_shadow = timer0.tcnt_shadow
                 /\ timer0'.tov0 = timer0.tov0 /\ timer0'.ocf0a = timer0.ocf0a)]_vars
    /\ [][(timer1.prescale = 0 /\ timer1'.prescale = 0)
             => (/\ timer1'.tcnt = timer1.tcnt
                 /\ timer1'.tov = timer1.tov /\ timer1'.ocf_a = timer1.ocf_a)]_vars
    /\ [][(timer0.prescale = 0 /\ timer0'.prescale > 0)
             => (/\ timer0'.tcnt_shadow <= timer0.tcnt_shadow + (cpu'.tick - cpu.tick)
                 /\ timer0'.tov0 = timer0.tov0 /\ timer0'.ocf0a = timer0.ocf0a)]_vars
    /\ [][(timer1.prescale = 0 /\ timer1'.prescale > 0)
             => (/\ timer1'.tcnt <= timer1.tcnt + (cpu'.tick - cpu.tick)
                 /\ timer1'.tov = timer1.tov /\ timer1'.ocf_a = timer1.ocf_a)]_vars


----------------------------------------------------------------------------
(* Specification of TCNT0 reads: the guest starts timer 0 with prescaler 1 *)
(* and reads TCNT0, single-stepped or inside run_frame, where the          *)
(* peripherals are updated every 128 cycles.                               *)

ReadProgram ==
    { Inst("Ldi", 18, 1),
      Inst("Sts", 69, 18),     \* TCCR0B: CS00
      Inst("Lds", 20, 70),     \* TCNT0
      Inst("Nop", 0, 0) }

MaxTickRead == 10

NextRead ==
    \/ StepOne(ReadProgram, MaxTickRead)
    \/ RunFrameBegin(MaxTickRead)
    \/ FrameIter(ReadProgram, MaxTickRead)

SpecRead == Init({"Atmega32u4"}) /\ [][NextRead]_vars

(* C27: a read of TCNT0 leaves the timer such that a second read at the    *)
(* same CPU tick returns the value the first returned (r20), and the       *)
(* counter, which counts CPU cycles here, has never counted more cycles    *)
(* than have elapsed, however often TCNT0 was read.                        *)
C27_TcntReadPure ==
    /\ [][(/\ hist'.op = "frame_step" /\ hist'.mn = "Lds"
           /\ ctl'.last_update = ctl.last_update)
             => Timer8DoUpdate(timer0', cpu.tick).tcnt_shadow = Get(data', 20)]_vars
    /\ [](timer0.tcnt_shadow <= cpu.tick)


----------------------------------------------------------------------------
(* Specifications of the FX flash commands: the host attaches the image    *)
(* (one byte, 0x12 at address 0) and the bus sends commands, address and   *)
(* data bytes of a small alphabet, releasing the chip-select in between.   *)

(* Page Program: Write Enable, 0x02, addresses in pages 0x0000 and 0xFFFF. *)
ProgBytes == {6, 2, 0, 15, 255}

MaxProgOps == 8

NextFxProg ==
    \/ LoadFxData
    \/ dbg.fx_transfers < MaxProgOps /\ FxSelectedTransfer(ProgBytes)
    \/ FxDeselected

SpecFxProg == Init({"Atmega32u4"}) /\ [][NextFxProg]_vars

(* C28 as stated: in the Programming state each data byte b sets          *)
(* flash[addr] to flash[addr] AND b and advances addr within the page,     *)
(* wrapping to the page start after the page's last byte.                  *)
C28_ProgramByte ==
    [][(fx_flash.state.st = "Programming" /\ dbg'.fx_transfers = dbg.fx_transfers + 1)
         => LET a == fx_flash.state.addr
            IN  /\ FxByte(fx_flash', a) = BAnd(FxByte(fx_flash, a), hist'.fx.b)
                /\ fx_flash'.state =
                       FxIn("Programming", 0, 0, (a - (a % 256)) + ((a + 1) % 256))]_vars

(* C28: in the Programming state, reached by command 0x02 and three        *)
(* address bytes that form addr, each data byte b sets flash[addr] to      *)
(* flash[addr] AND b and advances addr within the page, wrapping to the    *)
(* page start after the page's last byte, provided the write-enable latch  *)
(* is set and the array is allocated; otherwise the byte is ignored and    *)
(* addr stays.  No other byte of the array changes.                        *)
C28_ProgramByteWhenEnabled ==
    [][(fx_flash.state.st = "Programming" /\ dbg'.fx_transfers = dbg.fx_transfers + 1)
         => LET a == fx_flash.state.addr
            IN  /\ hist.fx.cmd = 2
                /\ hist.fx.k = 0 => a = FxAddress(hist.fx.abytes)
                /\ IF fx_flash.write_enabled /\ fx_flash.loaded
                   THEN /\ FxByte(fx_flash', a) = BAnd(FxByte(fx_flash, a), hist'.fx.b)
                        /\ fx_flash'.state =
                              FxIn("Programming", 0, 0, (a - (a % 256)) + ((a + 1) % 256))
                        /\ \A x \in (DOMAIN fx_flash.data \cup DOMAIN fx_flash'.data) \ {a} :
                              FxByte(fx_flash', x) = FxByte(fx_flash, x)
                   ELSE fx_flash' = fx_flash]_vars

C28_Witness ==
    /\ fx_flash.state = FxIn("Programming", 0, 0, 1)
    /\ hist.fx.cmd = 2
    /\ hist.fx.abytes = << 0, 0, 255 >>
    /\ hist.fx.k = 2
    /\ FxByte(fx_flash, 255) = 15
    /\ FxByte(fx_flash, 0) = 2

(* Sector Erase: Write Enable, 0x20, addresses in sector 0 and elsewhere. *)
EraseBytes == {6, 32, 0, 15}

MaxEraseOps == 7

NextFxErase ==
    \/ LoadFxData
    \/ dbg.fx_transfers < MaxEraseOps /\ FxSelectedTransfer(EraseBytes)
    \/ FxDeselected

SpecFxErase == Init({"Atmega32u4"}) /\ [][NextFxErase]_vars

(* C29: when the third address byte of a Sector Erase arrives, every byte  *)
(* of the 4 KiB sector that holds the address reads 0xFF afterwards if     *)
(* the write-enable latch was set and is unchanged if it was not, no byte  *)
(* outside the sector changes, the latch is clear and the engine is Idle.  *)
(* Bytes outside the two arrays' stored bytes are 0xFF before and after;   *)
(* the first and the last byte of the sector are looked at as well.        *)
C29_SectorErase ==
    [][(/\ hist.fx.cmd = 32 /\ Len(hist.fx.abytes) = 2
        /\ dbg'.fx_transfers = dbg.fx_transfers + 1)
         => LET sec == FxAddress(hist'.fx.abytes) \div 4096
                probe == DOMAIN fx_flash.data \cup DOMAIN fx_flash'.data
                         \cup {sec * 4096, sec * 4096 + 4095}
            IN  /\ \A x \in probe :
                      FxByte(fx_flash', x) =
                         IF fx_flash.write_enabled /\ x \div 4096 = sec
                         THEN 255 ELSE FxByte(fx_flash, x)
                /\ ~fx_flash'.write_enabled
                /\ fx_flash'.state = FxIdle]_vars

C29_Witness ==
    /\ hist.op = "fx_transfer"
    /\ hist.fx.cmd = 32
    /\ Len(hist.fx.abytes) = 3
    /\ hist.fx.abytes[1] = 0 /\ hist.fx.abytes[2] = 15
    /\ fx_flash.loaded
    /\ FxByte(fx_flash, 0) = 255
    /\ ~fx_flash.write_enabled
    /\ fx_flash.state = FxIdle

(* Read and Fast Read, at address 0, at the last byte of the array and     *)
(* elsewhere.                                                              *)
ReadBytes == {3, 11, 0, 255}

MaxReadOps == 8

NextFxRead ==
    \/ LoadFxData
    \/ dbg.fx_transfers < MaxReadOps /\ FxSelectedTransfer(ReadBytes)
    \/ FxDeselected

SpecFxRead == Init({"Atmega32u4"}) /\ [][NextFxRead]_vars


(* C30: after Read (0x03) and three address bytes forming A, the k-th      *)
(* further transfer returns flash[(A + k) mod 16 MiB], k = 0, 1, 2, ...;   *)
(* after Fast Read (0x0B) the same holds once one dummy byte has been      *)
(* sent.  The reads leave the array as it is.                              *)
C30_ReadSequence ==
    [][(/\ hist.fx.cmd \in {3, 11} /\ Len(hist.fx.abytes) = 3
        /\ dbg'.fx_transfers = dbg.fx_transfers + 1)
         => LET A == FxAddress(hist.fx.abytes)
                k == IF hist.fx.cmd = 3 THEN hist.fx.k ELSE hist.fx.k - 1
            IN  /\ k >= 0 => spdr_in' = FxByte(fx_flash, (A + k) % FX_FLASH_SIZE)
                /\ fx_flash'.data = fx_flash.data]_vars

C30_Witness ==
    /\ hist.op = "fx_transfer"
    /\ hist.fx.cmd = 11
    /\ hist.fx.abytes = << 255, 255, 255 >>
    /\ hist.fx.k = 3
    /\ fx_flash.loaded
    /\ spdr_in = 18


----------------------------------------------------------------------------
(* Specification of a reset with the FX flash in use: the bus sends Write  *)
(* Enable and a Read, and the host loads a program, which resets the       *)
(* machine (load_hex calls reset).                                         *)

ResetBytes == {6, 3, 0}

MaxResetOps == 5

NextFxReset ==
    \/ LoadFxData
    \/ dbg.fx_transfers < MaxResetOps /\ FxSelectedTransfer(ResetBytes)
    \/ FxDeselected
    \/ hist.load = "none" /\ LoadHex(FrameTexts)

SpecFxReset == Init({"Atmega32u4"}) /\ [][NextFxReset]_vars

(* C31: after reset() every peripheral state machine is in its power-on    *)
(* state: the timers, the SPI and the ADC, and the FX flash engine, which  *)
(* is Idle with its write-enable latch clear.                              *)
C31_ResetPowerOn ==
    [][(hist'.op = "load_hex" /\ hist'.load = "ok")
         => /\ timer0' = Timer8New /\ timer1' = Timer16New /\ timer3' = Timer16New
            /\ timer4' = Timer4New /\ timer2' = Timer8New
            /\ spi' = SpiNew /\ adc' = AdcNew
            /\ fx_flash'.state = FxIdle
            /\ ~fx_flash'.write_enabled]_vars

----------------------------------------------------------------------------
(* Specification of the display auto-detection on the ATmega32u4: the      *)
(* guest raises and lowers the control pins of both controllers (PD6/PD4   *)
(* and PF6/PF5) and writes command and data bytes to SPDR; the host single *)
(* steps (every step ends with flush_spi) and loads a program, which       *)
(* resets the machine.                                                     *)

DetectProgram ==
    { Inst("Ldi", 16, 112), Inst("Ldi", 18, 174), Inst("Ldi", 19, 33),
      Inst("Out", PORTD_ADDR, 16), Inst("Out", PORTD_ADDR, 20),
      Inst("Out", PORTF_ADDR, 16), Inst("Out", PORTF_ADDR, 20),
      Inst("Out", SPDR_ADDR, 18), Inst("Out", SPDR_ADDR, 19), Inst("Out", SPDR_ADDR, 20) }

MaxTickDetect == 5

NextDetect ==
    \/ StepOne(DetectProgram, MaxTickDetect)
    \/ hist.load = "none" /\ LoadHex(FrameTexts)

SpecDetect == Init({"Atmega32u4"}) /\ [][NextDetect]_vars

(* The display a buffered byte selects by the detection rules. *)
DetectRule(e) ==
    IF Bit(e.portd, 6) = 0 /\ Bit(e.portd, 4) = 0 /\ e.byte >= 128 THEN "Ssd1306"
    ELSE IF Bit(e.portf, 6) = 0 /\ Bit(e.portf, 5) = 0 /\ e.byte \in {32, 33} THEN "Pcd8544"
    ELSE "Unknown"

(* The display selected by the first byte of a sequence that satisfies a rule. *)
FirstDetected(bytes) ==
    LET hits == {i \in 1..Len(bytes) : DetectRule(bytes[i]) # "Unknown"}
    IN  IF hits = {} THEN "Unknown"
        ELSE DetectRule(bytes[CHOOSE i \in hits : \A j \in hits : i <= j])

(* C32: on the 32u4, while the display type is Unknown, a flush sets it by *)
(* the first flushed byte that satisfies a rule (SSD1306 pins low and byte *)
(* >= 0x80, or PCD8544 pins low and byte 0x20/0x21), and leaves it Unknown *)
(* when no byte does; once set, the display type changes only by a reset.  *)
C32_DetectFirstCommand ==
    /\ [][(display_type = "Unknown" /\ hist'.op = "step_one")
            => display_type' =
                 FirstDetected(spi_out \o
                    (IF hist'.wrote_spdr
                     THEN << [byte |-> hist'.issued[Len(hist'.issued)],
                              portd |-> Get(data', PORTD_ADDR), portf |-> Get(data', PORTF_ADDR)] >>
                     ELSE << >>))]_vars
    /\ [][(display_type # "Unknown" /\ hist'.op # "load_hex")
            => display_type' = display_type]_vars
    /\ [][(hist'.op = "load_hex" /\ hist'.load = "ok") => display_type' = "Unknown"]_vars

(* A PCD8544 was detected by a 0x21 command and a later byte >= 0x80 sent  *)
(* with the SSD1306 pins low left the display type alone.                  *)
C32_Witness ==
    /\ display_type = "Pcd8544"
    /\ Len(hist.issued) >= 2
    /\ hist.issued[Len(hist.issued)] = 174
    /\ Bit(Get(data, PORTD_ADDR), 6) = 0 /\ Bit(Get(data, PORTD_ADDR), 4) = 0
    /\ hist.wrote_spdr

----------------------------------------------------------------------------
(* Specification of the PCD8544 pin assignment on the ATmega328P: the      *)
(* guest makes PC0 and PC3 outputs, drives them low with PC1, PC2, PC4 and *)
(* PC5 high, and sends the 0x21 command.                                   *)

PinsProgram ==
    { Inst("Ldi", 16, 9), Inst("Ldi", 17, 54), Inst("Ldi", 19, 33),
      Inst("Out", 39, 16), Inst("Out", PORTC_ADDR, 17), Inst("Out", PORTC_ADDR, 20),
      Inst("Out", SPDR_ADDR, 19), Inst("Out", SPDR_ADDR, 20) }

MaxTickPins == 7

NextPins == StepOne(PinsProgram, MaxTickPins)

SpecPins == Init({"Atmega328p"}) /\ [][NextPins]_vars

(* The PORTC bits driven low as outputs. *)
LowOutputs(d) == {b \in 0..5 : Bit(Get(d, 39), b) = 1 /\ Bit(Get(d, PORTC_ADDR), b) = 0}

(* C33: on the 328P the first 0x20/0x21 byte sent while exactly two PORTC  *)
(* output bits are low assigns the lower bit to D/C and the higher bit to  *)
(* CS, and the byte reaches the display as a command routed by those pins. *)
C33_PinsDetected ==
    [][(/\ hist'.op = "step_one" /\ hist'.wrote_spdr
        /\ hist'.issued[Len(hist'.issued)] \in {32, 33}
        /\ \A i \in 1..Len(hist.issued) : hist.issued[i] \notin {32, 33}
        /\ Cardinality(LowOutputs(data')) = 2)
         => /\ \A b \in LowOutputs(data') :
                  /\ pcd_pins'.dc <= b
                  /\ pcd_pins'.cs >= b
            /\ pcd_pins'.dc \in LowOutputs(data') /\ pcd_pins'.cs \in LowOutputs(data')
            /\ Len(disp_rx') = Len(disp_rx) + 1
            /\ ~disp_rx'[Len(disp_rx')].is_data]_vars

----------------------------------------------------------------------------
(* display.rs: Ssd1306.  The controller's state is a function of the calls *)
(* it received; the framebuffer is kept as the byte and brightness last    *)
(* written to each (column, page) cell.                                    *)

Ssd1306New ==
    [col |-> 0, page |-> 0, col_start |-> 0, col_end |-> 127,
     page_start |-> 0, page_end |-> 7, inverted |-> FALSE, display_on |-> FALSE,
     contrast |-> 207, dirty |-> FALSE, cmd_state |-> "Ready", cmd_skip |-> 0,
     framebuffer |-> << >>]

Clamp(v, hi) == IF v < hi THEN v ELSE hi

(* The commands that take one parameter byte, which is skipped. *)
OneParameter == {32, 168, 211, 213, 217, 218, 219, 141}

(* receive_command: the second match, on the command byte. *)
SsdExecute(d, byte) ==
    CASE byte = 33 -> [d EXCEPT !.cmd_state = "SetColStart"]
      [] byte = 34 -> [d EXCEPT !.cmd_state = "SetPageStart"]
      [] byte = 174 -> [d EXCEPT !.display_on = FALSE]
      [] byte = 175 -> [d EXCEPT !.display_on = TRUE]
      [] byte = 166 -> [d EXCEPT !.inverted = FALSE, !.dirty = TRUE]
      [] byte = 167 -> [d EXCEPT !.inverted = TRUE, !.dirty = TRUE]
      [] byte = 129 -> [d EXCEPT !.cmd_state = "SetContrast"]
      [] byte \in OneParameter -> [d EXCEPT !.cmd_skip = 1]
      [] OTHER -> d

(* receive_command: the first match, on cmd_state. *)
SsdParameter(d, byte) ==
    CASE d.cmd_state = "SetColStart" ->
            [d EXCEPT !.col_start = Clamp(byte, 127), !.col = Clamp(byte, 127),
                      !.cmd_state = "SetColEnd"]
      [] d.cmd_state = "SetColEnd" ->
            [d EXCEPT !.col_end = Clamp(byte, 127), !.cmd_state = "Ready"]
      [] d.cmd_state = "SetPageStart" ->
            [d EXCEPT !.page_start = Clamp(byte, 7), !.page = Clamp(byte, 7),
                      !.cmd_state = "SetPageEnd"]
      [] d.cmd_state = "SetPageEnd" ->
            [d EXCEPT !.page_end = Clamp(byte, 7), !.cmd_state = "Ready"]
      [] d.cmd_state = "SetContrast" ->
            [d EXCEPT !.contrast = byte, !.cmd_state = "Ready"]
      [] OTHER -> SsdExecute(d, byte)

(* A faulty receive_command that counts the skipped byte down and executes *)
(* it as a command all the same.                                           *)
ssd_receive_command_eager(d, byte) ==
    IF d.cmd_skip > 0 THEN SsdParameter([d EXCEPT !.cmd_skip = @ - 1], byte)
    ELSE SsdParameter(d, byte)

ssd_receive_command(d, byte) ==
    IF d.cmd_skip > 0 THEN [d EXCEPT !.cmd_skip = @ - 1]
    ELSE SsdParameter(d, byte)

ssd_receive_data(d, byte) ==
    LET shown == [bits |-> IF d.inverted THEN 255 - byte ELSE byte, bright |-> d.contrast]
        d1 == IF d.col < 128 /\ d.page < 8
              THEN [d EXCEPT !.framebuffer = (<< d.col, d.page >> :> shown) @@ @,
                             !.dirty = TRUE]
              ELSE d
        col == (d.col + 1) % 256
        page == (d.page + 1) % 256
    IN  IF col > d.col_end
        THEN [d1 EXCEPT !.col = d.col_start,
                        !.page = IF page > d.page_end THEN d.page_start ELSE page]
        ELSE [d1 EXCEPT !.col = col]

(* The SSD1306 after the calls of a stream. *)
RECURSIVE SsdAfter(_)
SsdAfter(rx) ==
    IF rx = << >> THEN Ssd1306New
    ELSE LET d == SsdAfter(SubSeq(rx, 1, Len(rx) - 1))
             e == rx[Len(rx)]
         IN  IF e.ctrl # "ssd1306" THEN d
             ELSE IF e.is_data THEN ssd_receive_data(d, e.byte)
             ELSE ssd_receive_command(d, e.byte)

SsdCommands == {33, 34, 129, 32, 175, 5}
SsdData == {255}
MaxSsdOps == 5

(* flush_spi hands one byte to the selected SSD1306. *)
SsdReceive(is_data, bytes) ==
    /\ ctl.mode = "idle"
    /\ ~panicked
    /\ Len(disp_rx) < MaxSsdOps
    /\ \E byte \in bytes :
         disp_rx' = Append(disp_rx, [ctrl |-> "ssd1306", is_data |-> is_data, byte |-> byte,
                                     n |-> Len(disp_rx), batch |-> NextBatch(M)])
    /\ hist' = [hist EXCEPT !.op = IF is_data THEN "receive_data" ELSE "receive_command"]
    /\ UNCHANGED << host, eeprom, debugger, breakpoint_hit, cpu_type, cpu, data, timer0, timer1, timer3, timer4, timer2,
                    spi, adc, fx_flash, fx_cs_prev, spdr_in, spi_out, display_type, pcd_pins, audio, dbg,
                    snap, ctl, panicked >>

NextSsd ==
    \/ SsdReceive(FALSE, SsdCommands)
    \/ SsdReceive(TRUE, SsdData)

SpecSsd == Init({"Atmega32u4"}) /\ [][NextSsd]_vars

(* The stream up to call k, and whether calls i..j are all commands. *)
RxUpTo(k) == SubSeq(disp_rx, 1, k)
AllCommands(i, j) == \A x \in i..j : ~disp_rx[x].is_data

(* C34: when the SSD1306 command processor is ready and receives 0x21, the *)
(* next two command bytes only set the column window (start, end) and put  *)
(* the column cursor at its start; after 0x22 the next two only set the    *)
(* page window and put the page cursor at its start; after 0x81 the next   *)
(* one only sets the contrast; after a one-parameter command the next byte *)
(* changes nothing.  Each time the processor is ready again afterwards.    *)
C34_ParametersAbsorbed ==
    \A k \in 0..Len(disp_rx) :
      LET pre == SsdAfter(RxUpTo(k))
          c == disp_rx[k + 1].byte
          p1 == disp_rx[k + 2].byte
          p2 == disp_rx[k + 3].byte
      IN  (pre.cmd_state = "Ready" /\ pre.cmd_skip = 0) =>
            /\ (k + 3 <= Len(disp_rx) /\ AllCommands(k + 1, k + 3) /\ c = 33) =>
                  SsdAfter(RxUpTo(k + 3)) =
                     [pre EXCEPT !.col_start = Clamp(p1, 127), !.col = Clamp(p1, 127),
                                 !.col_end = Clamp(p2, 127)]
            /\ (k + 3 <= Len(disp_rx) /\ AllCommands(k + 1, k + 3) /\ c = 34) =>
                  SsdAfter(RxUpTo(k + 3)) =
                     [pre EXCEPT !.page_start = Clamp(p1, 7), !.page = Clamp(p1, 7),
                                 !.page_end = Clamp(p2, 7)]
            /\ (k + 2 <= Len(disp_rx) /\ AllCommands(k + 1, k + 2) /\ c = 129) =>
                  SsdAfter(RxUpTo(k + 2)) = [pre EXCEPT !.contrast = p1]
            /\ (k + 2 <= Len(disp_rx) /\ AllCommands(k + 1, k + 2) /\ c \in OneParameter) =>
                  SsdAfter(RxUpTo(k + 2)) = pre

(* After 0x20 with parameter 0x21, the column command 0x21 0xAF 0x22 was   *)
(* absorbed whole: window 127..34, display still off, processor ready.     *)
C34_Witness ==
    /\ Len(disp_rx) = 5
    /\ AllCommands(1, 5)
    /\ disp_rx[1].byte = 32 /\ disp_rx[2].byte = 33 /\ disp_rx[3].byte = 33
    /\ disp_rx[4].byte = 175 /\ disp_rx[5].byte = 34
    /\ SsdAfter(disp_rx).col_start = 127 /\ SsdAfter(disp_rx).col = 127
    /\ SsdAfter(disp_rx).col_end = 34
    /\ ~SsdAfter(disp_rx).display_on
    /\ SsdAfter(disp_rx).cmd_state = "Ready"

----------------------------------------------------------------------------
(* Specification of the speaker edge recording: the guest raises, lowers   *)
(* and toggles PC6 (PORTC and PINC writes); the host single steps, starts  *)
(* frames and loads a program, which resets the machine.                   *)

SpeakerProgram ==
    { Inst("Ldi", 16, 64),
      Inst("Out", PORTC_ADDR, 16), Inst("Out", PORTC_ADDR, 20), Inst("Out", 38, 16),
      Inst("Nop", 0, 0) }

MaxTickSpeaker == 5

NextSpeaker ==
    \/ StepOne(SpeakerProgram, MaxTickSpeaker)
    \/ RunFrameBegin(MaxTickSpeaker)
    \/ FrameIter(SpeakerProgram, MaxTickSpeaker)
    \/ hist.load = "none" /\ LoadHex(FrameTexts)

SpecSpeaker == Init({"Atmega32u4"}) /\ [][NextSpeaker]_vars

(* The level of the speaker pin PC6 in a data space. *)
Pc6(d) == Bit(Get(d, PORTC_ADDR), 6)

(* C35: a guest instruction that changes the level of the speaker pin PC6  *)
(* appends exactly one edge to the left channel, stamped with the CPU tick *)
(* at which the instruction ran and carrying the new level; a guest        *)
(* instruction that leaves the level alone appends nothing.                *)
C35_EdgePerLevelChange ==
    [][(hist'.op \in {"step_one", "frame_step"})
         => IF Pc6(data') # Pc6(data)
            THEN audio'.left.edges =
                   Append(audio.left.edges, [tick |-> cpu.tick, level |-> Pc6(data') = 1])
            ELSE audio'.left.edges = audio.left.edges]_vars

----------------------------------------------------------------------------
(* Specification of read watchpoints: the host sets read watchpoints on an *)
(* SRAM address, on SPSR and on TCNT0, and single steps; every load of the *)
(* guest reads one of the three addresses.                                 *)

WatchProgram ==
    { Inst("Lds", 17, 256), Inst("Lds", 18, SPSR_ADDR), Inst("Lds", 19, 70) }

ReadWatchpoints ==
    { [addr |-> 256, kind |-> "Read"], [addr |-> SPSR_ADDR, kind |-> "Read"],
      [addr |-> 70, kind |-> "Read"] }

MaxTickWatch == 6

NextWatch ==
    \/ AddWatchpoint(ReadWatchpoints)
    \/ TakeHit
    \/ StepOne(WatchProgram, MaxTickWatch)

SpecWatch == Init({"Atmega32u4"}) /\ [][NextWatch]_vars

(* C36: a guest read of an address covered by a read watchpoint records a  *)
(* hit, whether the value comes from SRAM or from a peripheral: with all   *)
(* three watchpoints set and no hit pending, every load leaves a pending   *)
(* read hit.                                                               *)
C36_ReadsAreWatched ==
    [][(/\ hist'.op = "step_one" /\ hist'.mn = "Lds"
        /\ debugger.watchpoints = ReadWatchpoints
        /\ ~debugger.watch_hit.some)
         => /\ debugger'.watch_hit.some
            /\ debugger'.watch_hit.access = "Read"]_vars

----------------------------------------------------------------------------
(* Specification of a snapshot taken around timer programming: the guest   *)
(* sets the compare registers of Timer/Counter0 and Timer/Counter1 (the    *)
(* timers stay stopped); the host single steps, saves a snapshot and       *)
(* restores it.                                                            *)

SnapProgram ==
    { Inst("Ldi", 18, 5), Inst("Sts", 71, 18), Inst("Sts", 136, 18), Inst("Nop", 0, 0) }

MaxTickSnap == 6

NextSnap ==
    \/ StepOne(SnapProgram, MaxTickSnap)
    \/ SaveSnapshot
    \/ RestoreSnapshot

SpecSnap == Init({"Atmega32u4"}) /\ [][NextSnap]_vars

(* C37: restore_snapshot puts the machine back where save_snapshot found   *)
(* it: the CPU, the data space and the EEPROM, and the peripherals'        *)
(* internal state (timer counters and time bases, pending interrupts, SPI  *)
(* and flash engine), so that the execution continues as it did then.      *)
C37_RestoreReturnsToSnapshot ==
    [][hist'.op = "restore_snapshot"
         => /\ cpu'.pc = snap[1].pc /\ cpu'.tick = snap[1].tick
            /\ data' = snap[1].data /\ eeprom' = snap[1].eeprom
            /\ Peripherals(M)' = hist.saved]_vars

----------------------------------------------------------------------------
(* Specification of SBI on a flag register: the guest sets both compare    *)
(* registers of Timer/Counter0 to 1, starts the timer at clk/1 and clears  *)
(* the compare-A flag with SBI TIFR0, 1.                                   *)

SbiProgram ==
    { Inst("Ldi", 18, 1), Inst("Sts", 71, 18), Inst("Sts", 72, 18), Inst("Sts", 69, 18),
      Inst("Sbi", 53, 1), Inst("Nop", 0, 0) }

MaxTickSbi == 11

NextSbi == StepOne(SbiProgram, MaxTickSbi)

SpecSbi == Init({"Atmega32u4"}) /\ [][NextSbi]_vars

(* C38: SBI on TIFR0 acts on the addressed flag only: SBI TIFR0, 1 leaves  *)
(* a pending compare-B flag and a pending overflow flag pending.           *)
C38_SbiSingleBit ==
    [][(hist'.op = "step_one" /\ hist'.mn = "Sbi")
         => /\ (timer0.ocf0b > 0 => timer0'.ocf0b > 0)
            /\ (timer0.tov0 > 0 => timer0'.tov0 > 0)]_vars

----------------------------------------------------------------------------
(* Specification of the SPI interrupt on the ATmega328P: the guest enables *)
(* the SPI and its interrupt (SPCR = SPIE | SPE), sets the I flag and      *)
(* writes SPDR.                                                            *)

VectorProgram ==
    { Inst("Ldi", 19, 192), Inst("Out", 76, 19), Inst("Sei", 0, 0),
      Inst("Out", SPDR_ADDR, 19), Inst("Nop", 0, 0) }

MaxTickVector == 8

NextVector == StepOne(VectorProgram, MaxTickVector)

SpecVector == Init({"Atmega328p"}) /\ [][NextVector]_vars

(* The ATmega328P vectors of the sources update_peripherals serves: the    *)
(* timers 0, 1 and 2, SPI, USART and ADC.                                  *)
INT_328P_SPI == 34
INT_328P_ADC == 42
Vectors328P ==
    {28, 30, 32, 22, 24, 26, 14, 16, 18, INT_328P_SPI,
     INT_328P_USART_RX, INT_328P_USART_UDRE, INT_328P_USART_TX, INT_328P_ADC}

(* C39: on the ATmega328P every dispatched interrupt enters the 328P       *)
(* vector of its source: the SPI interrupt enters 0x22, the ADC interrupt  *)
(* 0x2A, and no interrupt enters an address outside the 328P table.        *)
C39_Vectors328P ==
    (~Is32u4 /\ hist.irq.vec # -1)
      => /\ hist.irq.vec \in Vectors328P
         /\ (hist.irq.unit = "spi" => hist.irq.vec = INT_328P_SPI)
         /\ (hist.irq.unit = "adc" => hist.irq.vec = INT_328P_ADC)

----------------------------------------------------------------------------
(* Specification of the instruction cycle costs: the guest executes one    *)
(* instruction of every class of the cost table; the host single steps.    *)
(* No interrupt is enabled, so the CPU clock advances by the cost alone.   *)

CycleProgram ==
    { Inst("Ldi", 16, 3), Inst("Add", 16, 16), Inst("Out", DDRD_ADDR, 16),
      Inst("Adiw", 26, 1), Inst("Mul", 16, 16),
      Inst("Push", 16, 0), Inst("Pop", 17, 0), Inst("LdX", 18, 0), Inst("StX", 16, 0),
      Inst("Lds", 19, 256), Inst("Sts", 257, 16), Inst("Lpm0", 0, 0),
      Inst("Rcall", 1, 0), Inst("Ret", 0, 0) }

MaxTickCycle == 6

NextCycle == StepOne(CycleProgram, MaxTickCycle)

SpecCycle == Init({"Atmega32u4"}) /\ [][NextCycle]_vars

(* The cost table as the claim states it, with the cost of LDS and STS. *)
CostTable(mn, lds_sts) ==
    CASE mn \in {"Ldi", "Add", "Out", "In", "Nop", "Cp", "Cpc"} -> 1
      [] mn \in {"Adiw", "Sbiw", "Mul", "Push", "Pop", "LdX", "StX"} -> 2
      [] mn \in {"Lds", "Sts"} -> lds_sts
      [] mn \in {"Lpm0", "Rcall"} -> 3
      [] mn \in {"Ret", "Reti"} -> 4

(* The instruction of the last step advanced the CPU clock by its cost. *)
CostsFollow(lds_sts) ==
    (hist'.op = "step_one" /\ ~panicked')
      => cpu'.tick = cpu.tick + CostTable(hist'.mn, lds_sts)

====
